---- MODULE Spec2Model ----
(***************************************************************************)
(* Model of the export service's PDF core (src/infrastructure/exporters/   *)
(* pdf.rs): the text formatter, the alignment resolver, the layout         *)
(* derivations and the pagination loop of PdfExporter::export.             *)
(*                                                                         *)
(* Text is a sequence of Unicode scalar values (naturals); every length is *)
(* a character count unless a definition says bytes.  Lengths on the page  *)
(* are integers in units of 1/100 mm.                                      *)
(***************************************************************************)
EXTENDS Integers, Sequences, FiniteSets, TLC

VARIABLES
    config,      \* PdfExporter.config: the layout configuration
    formatter,   \* PdfExporter.text_formatter: a LatinTextFormatter
    data,        \* the ExportData given to export
    pc,          \* the position of export in its body
    renderer,    \* PdfRenderer: column_width, and the document's page count
    layer,       \* the page that `layer` of export refers to
    state,       \* PageState: current_y and page_number
    row,         \* the number of rows the loop of export has consumed
    out,         \* everything written to the document, in the order written
    placed,      \* per row consumed: the cursor the loop saw and what it did
    result,      \* the value export returned
    call,        \* the last call of a formatter or layout function on its own
    invoked,     \* the calls ExportUseCase::execute made to exporters
    calls        \* the export calls under way on one PdfExporter, by call

vars ==
    <<config, formatter, data, pc, renderer, layer, state, row, out, placed, result, call,
      invoked, calls>>

exportVars == <<data, pc, renderer, layer, state, row, out, placed, result>>

\* ------------------------------------------------------------------------
\* Bounds of the model
\* ------------------------------------------------------------------------
\* Longest text given to truncate, longest text given to sanitize, and the
\* largest character budget
MaxTextLen == 5

MaxSanitizeLen == 2

MaxBudget == 5

\* Longest header list and longest column metadata given to
\* should_right_align, and the largest number of columns given to
\* calculate_column_width
MaxHeaders == 2

MaxMetadata == 2

MaxColumns == 10

\* Most rows of an exported table
MaxRows == 8

\* Number of instance ids printpdf can draw for a saved document
MaxInstanceIds == 2

\* Number of export calls in flight on one PdfExporter, and the most rows
\* of their tables
NumCalls == 2

MaxCallRows == 2

\* ------------------------------------------------------------------------
\* Small helpers on sequences
\* ------------------------------------------------------------------------
Min(a, b) == IF a <= b THEN a ELSE b

Max(a, b) == IF a >= b THEN a ELSE b

\* text.chars().take(k).collect()
Take(s, k) == SubSeq(s, 1, Min(k, Len(s)))

RECURSIVE SeqsUpTo(_, _)
SeqsUpTo(S, n) ==
    IF n = 0 THEN {<< >>}
    ELSE LET shorter == SeqsUpTo(S, n - 1)
         IN shorter \cup {Append(s, c) : s \in {t \in shorter : Len(t) = n - 1}, c \in S}

\* ------------------------------------------------------------------------
\* LatinTextFormatter::sanitize
\* ------------------------------------------------------------------------
\* char::is_ascii_control: U+0000..U+001F and U+007F
IsAsciiControl(c) == c \in 0..31 \/ c = 127

\* The mutant maps the left double quote to a left single quote, which
\* sanitize rewrites again.
SanitizeCharQuoteSlip(c) ==
    IF c \in 32..126 THEN c
    ELSE IF c \in 3584..3711 THEN c
    ELSE IF c = 8220 THEN 8216
    ELSE IF c = 8221 THEN 34
    ELSE IF c \in {8216, 8217} THEN 39
    ELSE IF c \in {8211, 8212} THEN 45
    ELSE IF c = 8230 THEN 46
    ELSE IF IsAsciiControl(c) THEN 32
    ELSE c

\* The match of sanitize, arm by arm, in the order of the source.
SanitizeChar(c) ==
    IF c \in 32..126 THEN c                  \* '\u{0020}'..='\u{007E}'
    ELSE IF c \in 3584..3711 THEN c          \* '\u{0E00}'..='\u{0E7F}'
    ELSE IF c \in {8220, 8221} THEN 34       \* '\u{201C}' | '\u{201D}' => '"'
    ELSE IF c \in {8216, 8217} THEN 39       \* '\u{2018}' | '\u{2019}' => '\''
    ELSE IF c \in {8211, 8212} THEN 45       \* '\u{2013}' | '\u{2014}' => '-'
    ELSE IF c = 8230 THEN 46                 \* '\u{2026}' => '.'
    ELSE IF IsAsciiControl(c) THEN 32        \* control => ' '
    ELSE c

Sanitize(text) == [i \in 1..Len(text) |-> SanitizeChar(text[i])]

\* ------------------------------------------------------------------------
\* textwrap::wrap(text, Options::new(width).word_splitter(NoHyphenation)),
\* the library call of truncate_with_textwrap, with the crate's default
\* features: display width from unicode-width, words from the Unicode line
\* breaking algorithm, broken when wider than a line, lines chosen by the
\* optimal-fit algorithm.  The character classes are those of the model's
\* texts: letters and Thai letters (width 1, no break inside), Thai
\* combining marks (width 0, attached to what precedes), the space (width 1,
\* a break follows a run of spaces) and the line feed (separates lines).
\* A value used several times is bound like a `let` of the library:
\* CHOOSE r \in {e : x \in {v}} : TRUE is e with x the value of v.
\* ------------------------------------------------------------------------
LF == 10

SPACE == 32

\* Thai marks of general category Mn: U+0E31, U+0E34..U+0E3A, U+0E47..U+0E4E
IsThaiMark(c) == c = 3633 \/ c \in 3636..3642 \/ c \in 3655..3662

\* textwrap::core::ch_width: UnicodeWidthChar::width(ch).unwrap_or(0)
ChWidth(c) ==
    IF c \in 0..31 \/ c \in 127..159 THEN 0
    ELSE IF IsThaiMark(c) THEN 0
    ELSE 1

RECURSIVE DisplayWidth(_)
DisplayWidth(s) == IF s = << >> THEN 0 ELSE ChWidth(Head(s)) + DisplayWidth(Tail(s))

\* char::len_utf8
Utf8Len(c) == IF c < 128 THEN 1 ELSE IF c < 2048 THEN 2 ELSE IF c < 65536 THEN 3 ELSE 4

\* str::len: the sum of Utf8Len over the characters, one byte each and one
\* more for every character at or above U+0080, U+0800 and U+10000
ByteLen(s) ==
    Len(s) + Cardinality({i \in 1..Len(s) : Utf8Len(s[i]) >= 2})
           + Cardinality({i \in 1..Len(s) : Utf8Len(s[i]) >= 3})
           + Cardinality({i \in 1..Len(s) : Utf8Len(s[i]) >= 4})

\* s.trim_end_matches(' ')
TrimEndSpaces(s) ==
    SubSeq(s, 1, Cardinality({i \in 1..Len(s) : \E j \in i..Len(s) : s[j] # SPACE}))

\* char::is_whitespace (White_Space)
IsWhitespace(c) ==
    \/ c \in 9..13
    \/ c \in {32, 133, 160, 5760, 8232, 8233, 8239, 8287, 12288}
    \/ c \in 8192..8202

\* str::trim_end
TrimEnd(s) ==
    SubSeq(s, 1, Cardinality({i \in 1..Len(s) : \E j \in i..Len(s) : ~IsWhitespace(s[j])}))

\* text.split('\n'): the lines of the text, at least one
RECURSIVE SplitLines(_)
SplitLines(text) ==
    IF \A i \in 1..Len(text) : text[i] # LF THEN <<text>>
    ELSE LET p == CHOOSE i \in 1..Len(text) :
                      text[i] = LF /\ \A j \in 1..(i - 1) : text[j] # LF
         IN <<SubSeq(text, 1, p - 1)>> \o SplitLines(SubSeq(text, p + 1, Len(text)))

\* Word::from: the word without its trailing spaces, and how many they are
WordFrom(s) ==
    LET t == TrimEndSpaces(s)
    IN [word |-> t, whitespace |-> Len(s) - Len(t), width |-> DisplayWidth(t)]

\* A break opportunity after the character at idx (idx < Len(line)): after
\* a space that another character follows.
BreakOpportunity(line, idx) == line[idx] = SPACE /\ line[idx + 1] # SPACE

\* WordSeparator::UnicodeBreakProperties.find_words
FindWords(line) ==
    LET n == Len(line)
        RECURSIVE Scan(_, _)
        Scan(start, idx) ==
            IF start > n THEN << >>
            ELSE IF idx >= n THEN <<WordFrom(SubSeq(line, start, n))>>
            ELSE IF BreakOpportunity(line, idx)
                 THEN <<WordFrom(SubSeq(line, start, idx))>> \o Scan(idx + 1, idx + 1)
            ELSE Scan(start, idx + 1)
    IN Scan(1, 1)

\* Word::break_apart
BreakApart(w, line_width) ==
    LET s == w.word
        n == Len(s)
        RECURSIVE Go(_, _, _)
        Go(idx, offset, width) ==
            IF idx > n
            THEN IF offset <= n
                 THEN <<[word |-> SubSeq(s, offset, n), whitespace |-> w.whitespace,
                         width |-> width]>>
                 ELSE << >>
            ELSE IF width > 0 /\ width + ChWidth(s[idx]) > line_width
                 THEN <<[word |-> SubSeq(s, offset, idx - 1), whitespace |-> 0,
                         width |-> width]>>
                      \o Go(idx + 1, idx, ChWidth(s[idx]))
            ELSE Go(idx + 1, offset, width + ChWidth(s[idx]))
    IN Go(1, 1, 0)

\* textwrap::core::break_words
RECURSIVE BreakWords(_, _)
BreakWords(words, line_width) ==
    IF words = << >> THEN << >>
    ELSE (IF Head(words).width > line_width
          THEN BreakApart(Head(words), line_width)
          ELSE <<Head(words)>>) \o BreakWords(Tail(words), line_width)

\* Penalties::new()
NLinePenalty == 1000

OverflowPenalty == 2500

ShortLastLineFraction == 4

ShortLastLinePenalty == 25

\* wrap_optimal_fit: the line breaks of least total cost.  minima[j + 1] is
\* the start (row) and the cost of the best line ending with fragment j,
\* minima[1] the empty start; of equal costs the smallest row is kept.  The
\* result is the sequence of the lines' ends (each a fragment count), the
\* last being Len(fragments).
WrapOptimalFit(fragments, line_width) ==
    LET n == Len(fragments)
        target == Max(line_width, 1)
        widths[k \in 0..n] ==
            IF k = 0 THEN 0
            ELSE widths[k - 1] + fragments[k].width + fragments[k].whitespace
        LineCost(i, j) ==
            LET lw == widths[j] - widths[i] - fragments[j].whitespace
            IN NLinePenalty
               + (IF lw > target THEN (lw - target) * OverflowPenalty
                  ELSE IF j < n THEN (target - lw) * (target - lw)
                  ELSE IF i + 1 = j /\ lw * ShortLastLineFraction < target
                       THEN ShortLastLinePenalty
                  ELSE 0)
        Extend(minima) ==
            LET j == Len(minima)
                costs == [i \in 0..(j - 1) |-> minima[i + 1].cost + LineCost(i, j)]
                best == CHOOSE i \in 0..(j - 1) :
                            \A k \in 0..(j - 1) :
                                costs[i] < costs[k] \/ (costs[i] = costs[k] /\ i <= k)
            IN Append(minima, [row |-> best, cost |-> costs[best]])
        RECURSIVE Fill(_)
        Fill(minima) ==
            IF Len(minima) > n THEN minima
            ELSE CHOOSE filled \in {Fill(longer) : longer \in {Extend(minima)}} : TRUE
        RECURSIVE Ends(_, _)
        Ends(minima, pos) ==
            IF pos = 0 THEN << >> ELSE Append(Ends(minima, minima[pos + 1].row), pos)
    IN CHOOSE ends \in {Ends(minima, n) : minima \in {Fill(<<[row |-> 0, cost |-> 0]>>)}} :
           TRUE

\* The lines of one line of the text, from its fragments and the lines'
\* ends: each line runs to the end of its last word, without the spaces
\* after it.
LinesOfFragments(line, words, ends) ==
    LET \* the characters up to the end of fragment k, its spaces included
        upto[k \in 0..Len(words)] ==
            IF k = 0 THEN 0
            ELSE upto[k - 1] + Len(words[k].word) + words[k].whitespace
    IN [l \in 1..Len(ends) |->
           SubSeq(line,
                  (IF l = 1 THEN 0 ELSE upto[ends[l - 1]]) + 1,
                  upto[ends[l]] - words[ends[l]].whitespace)]

\* wrap_single_line: the lines one line of the text wraps into
WrapSingleLine(line, width) ==
    IF ByteLen(line) < width
    THEN <<TrimEndSpaces(line)>>
    ELSE CHOOSE lines \in
             UNION {{LinesOfFragments(line, words, ends) :
                        ends \in {WrapOptimalFit(words, width)}} :
                            words \in {BreakWords(FindWords(line), width)}} : TRUE

\* textwrap::wrap
Wrap(text, width) ==
    LET RECURSIVE All(_, _)
        All(lines, k) ==
            IF k > Len(lines) THEN << >>
            ELSE WrapSingleLine(lines[k], width) \o All(lines, k + 1)
    IN CHOOSE wrapped \in {All(lines, 1) : lines \in {SplitLines(text)}} : TRUE

\* ------------------------------------------------------------------------
\* LatinTextFormatter
\* ------------------------------------------------------------------------
\* "..." and the one-character marker of test_text_formatter_custom_ellipsis
ThreeDots == <<46, 46, 46>>

EllipsisChar == <<8230>>

\* LatinTextFormatter::new()
NewFormatter ==
    [max_chars_limit |-> 50, min_chars_limit |-> 5,
     truncation_mode |-> "WordBoundary", ellipsis |-> ThreeDots]

\* with_ellipsis, with_truncation_mode
WithEllipsis(f, e) == [f EXCEPT !.ellipsis = e]

WithTruncationMode(f, m) == [f EXCEPT !.truncation_mode = m]

\* with_limits
WithLimits(f, min, max) == [f EXCEPT !.min_chars_limit = min, !.max_chars_limit = max]

\* The mutant returns the ellipsis alone whenever no width is left for the
\* text.
TruncateWithTextwrapEllipsisAlone(f, text, max_chars) ==
    IF Max(max_chars - Len(f.ellipsis), 0) = 0 THEN f.ellipsis
    ELSE Take(text, max_chars - Len(f.ellipsis)) \o f.ellipsis

\* The mutant takes the plain prefix only when max_chars is below the length
\* of the ellipsis, and returns the ellipsis alone when it is equal.
TruncateWithTextwrapStrictEdge(f, text, max_chars) ==
    IF max_chars < Len(f.ellipsis) THEN Take(text, max_chars) ELSE f.ellipsis

\* truncate_with_textwrap
TruncateWithTextwrap(f, text, max_chars) ==
    LET ellipsis_len == Len(f.ellipsis)
        available_width == Max(max_chars - ellipsis_len, 0)
        FirstLine(wrapped) ==
            LET first_line == TrimEnd(wrapped[1])
            IN IF wrapped = << >> THEN f.ellipsis
               ELSE IF Len(wrapped) > 1 \/ Len(first_line) < Len(text)
                    THEN first_line \o f.ellipsis
               ELSE first_line
    IN IF max_chars <= ellipsis_len THEN Take(text, max_chars)
       ELSE IF available_width = 0 THEN f.ellipsis
       ELSE CHOOSE truncated \in
                {FirstLine(wrapped) : wrapped \in {Wrap(text, available_width)}} : TRUE

\* The mutant counts the ellipsis in bytes.
TruncateSimpleEllipsisBytes(f, text, max_chars) ==
    LET ellipsis_len == ByteLen(f.ellipsis)
        truncate_at == Max(max_chars - ellipsis_len, 0)
    IN IF max_chars <= ellipsis_len THEN Take(text, max_chars)
       ELSE Take(text, truncate_at) \o f.ellipsis

\* truncate_simple
TruncateSimple(f, text, max_chars) ==
    LET ellipsis_len == Len(f.ellipsis)
        truncate_at == Max(max_chars - ellipsis_len, 0)
    IN IF max_chars <= ellipsis_len THEN Take(text, max_chars)
       ELSE Take(text, truncate_at) \o f.ellipsis

\* The mutant truncates a text that is exactly at the budget.
TruncateStrictBudget(f, text, max_chars) ==
    IF Len(text) < max_chars THEN text
    ELSE IF f.truncation_mode = "Simple" THEN TruncateSimple(f, text, max_chars)
    ELSE TruncateWithTextwrap(f, text, max_chars)

\* TextFormatter::truncate of LatinTextFormatter
Truncate(f, text, max_chars) ==
    IF Len(text) <= max_chars THEN text
    ELSE IF f.truncation_mode = "Simple" THEN TruncateSimple(f, text, max_chars)
    ELSE TruncateWithTextwrap(f, text, max_chars)

\* ------------------------------------------------------------------------
\* Layout configuration
\* ------------------------------------------------------------------------
\* Mm(x): a length of x millimetres, in units of 1/100 mm
Mm(x) == x * 100

\* An f32 quotient, rounded to the nearest unit
DivRound(a, b) == (2 * a + b) \div (2 * b)

\* PdfLayoutConfig::default(): A4, Margins, Typography and Spacing defaults
DefaultLayout ==
    [page_size |-> [width |-> Mm(210), height |-> Mm(297)],
     margins |-> [top |-> Mm(20), bottom |-> Mm(20), left |-> Mm(20), right |-> Mm(20)],
     typography |-> [title_size |-> 16, header_size |-> 10, body_size |-> 10,
                     page_number_size |-> 8, line_height |-> Mm(7)],
     spacing |-> [title_bottom |-> Mm(15), header_line_offset |-> Mm(4),
                  header_to_content |-> Mm(10), cell_padding |-> Mm(2),
                  page_number_area |-> Mm(20), content_top_offset |-> Mm(10)],
     min_column_width |-> Mm(28),
     max_chars_per_cell |-> 50]

\* PdfLayoutConfig { page_size, typography.line_height, ..Default::default() }
\* as PdfExporter::with_config accepts it
LayoutWith(width, height, line_height) ==
    [DefaultLayout EXCEPT !.page_size = [width |-> width, height |-> height],
                          !.typography.line_height = line_height]

\* A4 with the defaults, and two small pages: 60 mm x 100 mm with the line
\* height of 7 mm, and with a line height of 5 mm
CompactLayout == LayoutWith(Mm(60), Mm(100), Mm(7))

TightLayout == LayoutWith(Mm(60), Mm(100), Mm(5))

Layouts == {DefaultLayout, CompactLayout, TightLayout}

\* PdfLayoutConfig::content_width
ContentWidth(cfg) ==
    cfg.page_size.width - cfg.margins.left - cfg.margins.right

\* The mutant enforces the minimum column width.
CalculateColumnWidthEnforcingMin(cfg, num_columns) ==
    IF num_columns = 0 THEN cfg.min_column_width
    ELSE Max(cfg.min_column_width, DivRound(ContentWidth(cfg), num_columns))

\* PdfLayoutConfig::calculate_column_width
CalculateColumnWidth(cfg, num_columns) ==
    IF num_columns = 0 THEN cfg.min_column_width
    ELSE DivRound(ContentWidth(cfg), num_columns)

\* PdfLayoutConfig::content_start_y
ContentStartY(cfg) ==
    cfg.page_size.height - cfg.margins.top - cfg.spacing.content_top_offset

\* PdfLayoutConfig::effective_bottom
EffectiveBottom(cfg) == cfg.margins.bottom + cfg.spacing.page_number_area

\* TextFormatter::max_chars_for_width of LatinTextFormatter: the width in
\* points (2.83465 per mm) over font_size * 0.6, cut to an integer, then
\* max(min_chars_limit).min(max_chars_limit)
\* The mutant applies the upper limit first and the lower limit last.
MaxCharsForWidthMinLast(f, width, font_size) ==
    IF font_size = 0 /\ width > 0 THEN Max(f.max_chars_limit, f.min_chars_limit)
    ELSE IF font_size <= 0 \/ width <= 0
    THEN Max(Min(0, f.max_chars_limit), f.min_chars_limit)
    ELSE Max(Min((width * 56693) \div (1200000 * font_size), f.max_chars_limit),
             f.min_chars_limit)

\* The cast `as usize` saturates: a negative quotient and NaN (0.0 / 0.0)
\* become 0, and +infinity (a positive width over font size 0) becomes
\* usize::MAX, which max(min_chars_limit) leaves and min(max_chars_limit)
\* cuts to max_chars_limit.
MaxCharsForWidth(f, width, font_size) ==
    IF font_size = 0 /\ width > 0 THEN f.max_chars_limit
    ELSE LET max_chars == IF font_size <= 0 \/ width <= 0 THEN 0
                          ELSE (width * 56693) \div (1200000 * font_size)
         IN Min(Max(max_chars, f.min_chars_limit), f.max_chars_limit)

\* ------------------------------------------------------------------------
\* Alignment resolver
\* ------------------------------------------------------------------------
\* ColumnType::is_right_aligned
IsRightAligned(column_type) == column_type \in {"Number", "Currency", "Percentage"}

ColumnTypes == {"Text", "Number", "Currency", "Percentage", "Date"}

\* ColumnMetadata::text(), number(), ...
ColumnMetadata(column_type) == [column_type |-> column_type, width_hint |-> "None"]

\* Option<Vec<ColumnMetadata>>
NoMetadata == [is_some |-> FALSE, value |-> << >>]

SomeMetadata(cols) == [is_some |-> TRUE, value |-> cols]

\* char::to_lowercase on the letters of the model's texts (ASCII and
\* Latin-1 capitals; Thai has no case)
LowerChar(c) ==
    IF c \in 65..90 THEN c + 32
    ELSE IF c \in 192..222 /\ c # 215 THEN c + 32
    ELSE c

\* str::to_lowercase
ToLowercase(s) == [i \in 1..Len(s) |-> LowerChar(s[i])]

\* str::contains
Contains(s, pat) ==
    \E i \in 0..(Len(s) - Len(pat)) : SubSeq(s, i + 1, i + Len(pat)) = pat

\* numeric_keywords of is_numeric_header
NumericKeywords ==
    {
     <<97, 109, 111, 117, 110, 116>>,                        \* amount
     <<116, 111, 116, 97, 108>>,                             \* total
     <<115, 117, 109>>,                                      \* sum
     <<99, 111, 117, 110, 116>>,                             \* count
     <<113, 116, 121>>,                                      \* qty
     <<113, 117, 97, 110, 116, 105, 116, 121>>,              \* quantity
     <<112, 114, 105, 99, 101>>,                             \* price
     <<99, 111, 115, 116>>,                                  \* cost
     <<114, 97, 116, 101>>,                                  \* rate
     <<118, 97, 108, 117, 101>>,                             \* value
     <<110, 117, 109, 98, 101, 114>>,                        \* number
     <<110, 117, 109>>,                                      \* num
     <<35>>,                                                 \* #
     <<98, 97, 108, 97, 110, 99, 101>>,                      \* balance
     <<99, 114, 101, 100, 105, 116>>,                        \* credit
     <<100, 101, 98, 105, 116>>,                             \* debit
     <<102, 101, 101>>,                                      \* fee
     <<116, 97, 120>>,                                       \* tax
     <<100, 105, 115, 99, 111, 117, 110, 116>>,              \* discount
     <<112, 101, 114, 99, 101, 110, 116>>,                   \* percent
     <<37>>,                                                 \* %
     <<115, 99, 111, 114, 101>>,                             \* score
     <<112, 111, 105, 110, 116, 115>>,                       \* points
     <<119, 101, 105, 103, 104, 116>>,                       \* weight
     <<104, 101, 105, 103, 104, 116>>,                       \* height
     <<119, 105, 100, 116, 104>>,                            \* width
     <<108, 101, 110, 103, 116, 104>>,                       \* length
     <<115, 105, 122, 101>>,                                 \* size
     <<97, 103, 101>>,                                       \* age
     <<121, 101, 97, 114>>,                                  \* year
     <<109, 111, 110, 116, 104>>,                            \* month
     <<100, 97, 121>>,                                       \* day
     <<3592, 3635, 3609, 3623, 3609>>,                       \* จำนวน
     <<3619, 3634, 3588, 3634>>,                             \* ราคา
     <<3619, 3623, 3617>>,                                   \* รวม
     <<3618, 3629, 3604>>,                                   \* ยอด
     <<3648, 3591, 3636, 3609>>,                             \* เงิน
     <<3610, 3634, 3607>>                                    \* บาท
    }

\* The mutant compares the header as written, without lower-casing it.
IsNumericHeaderCaseSensitive(header) ==
    \E kw \in NumericKeywords : Contains(header, kw)

\* PdfRenderer::is_numeric_header
IsNumericHeader(header) ==
    LET lower == ToLowercase(header)
    IN \E kw \in NumericKeywords : Contains(lower, kw)

\* The mutant asks the header heuristic first and the metadata only when
\* the heuristic says no.
ShouldRightAlignHeaderFirst(col_idx, headers, column_metadata) ==
    \/ col_idx < Len(headers) /\ IsNumericHeader(headers[col_idx + 1])
    \/ /\ column_metadata.is_some
       /\ col_idx < Len(column_metadata.value)
       /\ IsRightAligned(column_metadata.value[col_idx + 1].column_type)

\* PdfRenderer::should_right_align (col_idx counts from 0)
ShouldRightAlign(col_idx, headers, column_metadata) ==
    IF column_metadata.is_some /\ col_idx < Len(column_metadata.value)
    THEN IsRightAligned(column_metadata.value[col_idx + 1].column_type)
    ELSE IF col_idx < Len(headers) THEN IsNumericHeader(headers[col_idx + 1])
    ELSE FALSE

\* "Total Sales"
HdrTotalSales == <<84, 111, 116, 97, 108, 32, 83, 97, 108, 101, 115>>

\* "Description"
HdrDescription == <<68, 101, 115, 99, 114, 105, 112, 116, 105, 111, 110>>

\* "Price"
HdrPrice == <<80, 114, 105, 99, 101>>

\* "ราคาสินค้า"
HdrThaiPrice == <<3619, 3634, 3588, 3634, 3626, 3636, 3609, 3588, 3657, 3634>>

\* "ชื่อ"
HdrThaiName == <<3594, 3639, 3656, 3629>>

HeaderPool == {HdrTotalSales, HdrDescription, HdrPrice, HdrThaiPrice, HdrThaiName}

\* ------------------------------------------------------------------------
\* PdfRenderer: what each render_* call writes.  An entry of `out` records
\* the page written to, the text cursor (x, y) and the text.
\* ------------------------------------------------------------------------
\* format!("{}", n) of a number
RECURSIVE Decimal(_)
Decimal(n) == IF n < 10 THEN <<48 + n>> ELSE Append(Decimal(n \div 10), 48 + (n % 10))

\* format!("Page {}", page_num)
PageLabel(page_num) == <<80, 97, 103, 101, 32>> \o Decimal(page_num)

\* PdfRenderer::render_title: the entry written (the cursor moves down by
\* title_bottom, see RenderTitle)
TitleEntry(cfg, f, page, title, y) ==
    [kind |-> "title", page |-> page, x |-> cfg.margins.left, y |-> y,
     text |-> Sanitize(title)]

\* PdfRenderer::estimate_text_width: chars * font_size * 0.5 pt, 0.3528 mm
\* per point
EstimateTextWidth(text, font_size) == (Len(text) * font_size * 1764) \div 100

\* PdfRenderer::calculate_column_bounds
CalculateColumnBounds(cfg, column_width, col_idx) ==
    LET content_right == cfg.page_size.width - cfg.margins.right
    IN [left |-> cfg.margins.left + column_width * col_idx,
        right |-> Min(cfg.margins.left + column_width * (col_idx + 1), content_right)]

\* The mutant does not keep a right-aligned text inside its column.
CalculateTextPositionUnclamped(cfg, text, bounds, right_align) ==
    IF right_align
    THEN bounds.right - EstimateTextWidth(text, cfg.typography.body_size)
             - cfg.spacing.cell_padding
    ELSE bounds.left

\* PdfRenderer::calculate_text_position
CalculateTextPosition(cfg, text, bounds, right_align) ==
    IF right_align
    THEN Max(bounds.right - EstimateTextWidth(text, cfg.typography.body_size)
                 - cfg.spacing.cell_padding,
             bounds.left)
    ELSE bounds.left

\* The mutant sanitizes the cell before it truncates it.
PrepareCellTextSanitizeFirst(cfg, f, column_width, cell) ==
    Truncate(f, Sanitize(cell), MaxCharsForWidth(f, column_width, cfg.typography.body_size))

\* PdfRenderer::prepare_cell_text
PrepareCellText(cfg, f, column_width, cell) ==
    LET max_chars == MaxCharsForWidth(f, column_width, cfg.typography.body_size)
        truncated == Truncate(f, cell, max_chars)
    IN Sanitize(truncated)

\* The mutant fits a header to its column like a cell.
HeaderTextFitted(cfg, f, column_width, header) == PrepareCellText(cfg, f, column_width, header)

\* The text render_headers writes for one header: sanitized, not truncated
HeaderText(cfg, f, column_width, header) == Sanitize(header)

\* The mutant writes the headers without their separator line.
HeaderEntriesWithoutLine(cfg, f, column_width, page, headers, y) ==
    [i \in 1..Len(headers) |->
        [kind |-> "header", page |-> page, col |-> i - 1,
         x |-> cfg.margins.left + column_width * (i - 1), y |-> y,
         text |-> Sanitize(headers[i])]]

\* PdfRenderer::render_headers with render_header_line: one entry per
\* header, then the separator line
HeaderEntries(cfg, f, column_width, page, headers, y) ==
    [i \in 1..Len(headers) |->
        [kind |-> "header", page |-> page, col |-> i - 1,
         x |-> cfg.margins.left + column_width * (i - 1), y |-> y,
         text |-> HeaderText(cfg, f, column_width, headers[i])]]
    \o <<[kind |-> "line", page |-> page, x |-> cfg.margins.left,
          x_end |-> cfg.page_size.width - cfg.margins.right,
          y |-> y - cfg.spacing.header_line_offset]>>

\* PdfRenderer::render_row with render_cell: one entry per cell
RowEntries(cfg, f, column_width, page, row_idx, cells, headers, column_metadata, y) ==
    [i \in 1..Len(cells) |->
        LET bounds == CalculateColumnBounds(cfg, column_width, i - 1)
            right_align == ShouldRightAlign(i - 1, headers, column_metadata)
            Cell(sanitized) ==
                [kind |-> "cell", page |-> page, row |-> row_idx, col |-> i - 1,
                 x |-> CalculateTextPosition(cfg, sanitized, bounds, right_align),
                 y |-> y, text |-> sanitized]
        IN CHOOSE entry \in
               {Cell(sanitized) :
                   sanitized \in {PrepareCellText(cfg, f, column_width, cells[i])}} : TRUE]

\* PdfRenderer::render_page_number
FooterEntry(cfg, page, page_num) ==
    [kind |-> "footer", page |-> page, x |-> (cfg.page_size.width \div 2) - Mm(10),
     y |-> cfg.margins.bottom, text |-> PageLabel(page_num)]

\* ------------------------------------------------------------------------
\* PdfExporter::export, step by step.  pc is the position in its body:
\*   "new"     before PdfRenderer::new
\*   "title"   before render_title
\*   "headers" before render_headers on the first page
\*   "rows"    at the top of the loop over data.rows
\*   "place"   in the loop body, after its page break
\*   "save"    before save_to_bytes
\*   "done"    returned
\* ------------------------------------------------------------------------
\* Report "A" with typographic quotes
TitleReport == <<82, 101, 112, 111, 114, 116, 32, 8220, 65, 8221>>

\* The cells of the rows: "Item 1", "100", "x" line feed "y Hello World",
\* "Hello World Test", and Thai "sawatdi khrap"
CellPool ==
    <<<<73, 116, 101, 109, 32, 49>>,
      <<49, 48, 48>>,
      <<120, 10, 121, 32, 72, 101, 108, 108, 111, 32, 87, 111, 114, 108, 100>>,
      <<72, 101, 108, 108, 111, 32, 87, 111, 114, 108, 100, 32, 84, 101, 115, 116>>,
      <<3626, 3623, 3633, 3626, 3604, 3637, 3588, 3619, 3633, 3610>>>>

\* "From" en dash "To"
HdrFromTo == <<70, 114, 111, 109, 8211, 84, 111>>

\* Row row_idx (from 1) of a table of n_columns columns
RowOf(row_idx, n_columns) ==
    [j \in 1..n_columns |-> CellPool[((row_idx + 2 * j - 3) % Len(CellPool)) + 1]]

\* export does not validate: a table without headers still has one cell per
\* row
TableOf(headers, n_rows, column_metadata) ==
    [title |-> TitleReport, format |-> "Pdf", headers |-> headers,
     rows |-> [i \in 1..n_rows |-> RowOf(i, Max(Len(headers), 1))],
     column_metadata |-> column_metadata]

NoCall == [op |-> "none"]

ExportHeaders == {<< >>, <<HdrTotalSales>>, <<HdrDescription, HdrFromTo>>}

ExportMetadata == {NoMetadata, SomeMetadata(<<ColumnMetadata("Number")>>)}

ExportFormatters ==
    {NewFormatter, WithTruncationMode(WithEllipsis(NewFormatter, EllipsisChar), "Simple")}

Init ==
    /\ config \in Layouts
    /\ formatter \in ExportFormatters
    /\ \E headers \in ExportHeaders, n_rows \in 0..MaxRows, md \in ExportMetadata :
           data = TableOf(headers, n_rows, md)
    /\ pc = "new"
    /\ renderer = [column_width |-> 0, pages |-> 0]
    /\ layer = 0
    /\ state = [current_y |-> 0, page_number |-> 0]
    /\ row = 0
    /\ out = << >>
    /\ placed = << >>
    /\ result = [kind |-> "none"]
    /\ call = NoCall
    /\ invoked = << >>
    /\ calls = << >>

\* PdfRenderer::new succeeds: the document has one page, the fonts are
\* loaded, the column width is fixed; then PageState is created and the
\* first layer fetched.
NewRenderer ==
    /\ pc = "new"
    /\ renderer' = [column_width |-> CalculateColumnWidth(config, Len(data.headers)),
                    pages |-> 1]
    /\ layer' = 1
    /\ state' = [current_y |-> ContentStartY(config), page_number |-> 1]
    /\ pc' = "title"
    /\ UNCHANGED <<config, formatter, data, row, out, placed, result, call, invoked, calls>>

\* load_fonts fails: the `?` of export returns the error.
FontLoadingFails ==
    /\ pc = "new"
    /\ result' = [kind |-> "Err", error |-> "FontLoading"]
    /\ pc' = "done"
    /\ UNCHANGED <<config, formatter, data, renderer, layer, state, row, out, placed,
                   call, invoked, calls>>

RenderTitle ==
    /\ pc = "title"
    /\ out' = Append(out, TitleEntry(config, formatter, layer, data.title, state.current_y))
    /\ state' = [state EXCEPT !.current_y = state.current_y - config.spacing.title_bottom]
    /\ pc' = IF data.headers # << >> THEN "headers" ELSE "rows"
    /\ UNCHANGED <<config, formatter, data, renderer, layer, row, placed, result, call,
                   invoked, calls>>

\* render_headers on the first page
RenderFirstHeaders ==
    /\ pc = "headers"
    /\ out' = out \o HeaderEntries(config, formatter, renderer.column_width, layer,
                                   data.headers, state.current_y)
    /\ state' = [state EXCEPT
                    !.current_y = state.current_y - config.spacing.header_to_content]
    /\ pc' = "rows"
    /\ UNCHANGED <<config, formatter, data, renderer, layer, row, placed, result, call,
                   invoked, calls>>

\* The mutant breaks the page when the row about to be placed would cross
\* the threshold.
NeedsPageBreakAfterRow(cfg, st) ==
    st.current_y - cfg.typography.line_height < EffectiveBottom(cfg)

\* The mutant also breaks the page when the cursor is exactly at the
\* threshold.
NeedsPageBreakAtThreshold(cfg, st) == st.current_y <= EffectiveBottom(cfg)

\* The mutant keeps the rows above the bottom margin only, not above the
\* footer area.
NeedsPageBreakBelowMargin(cfg, st) == st.current_y < cfg.margins.bottom

\* The test of the loop body: state.current_y < effective_bottom()
NeedsPageBreak(cfg, st) == st.current_y < EffectiveBottom(cfg)

\* The mutant leaves the page number as it is at a page break.
NextPageNumberStuck(page_number) == page_number

\* state.page_number += 1
NextPageNumber(page_number) == page_number + 1

\* The page break of the loop body: footer on the current page, next page
\* number, a new page and its layer, the cursor back at content_start_y,
\* and the headers again.
PageBreak ==
    /\ pc = "rows"
    /\ row < Len(data.rows)
    /\ NeedsPageBreak(config, state)
    /\ LET new_page == renderer.pages + 1
           start_y == ContentStartY(config)
       IN /\ renderer' = [renderer EXCEPT !.pages = new_page]
          /\ layer' = new_page
          /\ out' = Append(out, FooterEntry(config, layer, state.page_number))
                    \o (IF data.headers # << >>
                        THEN HeaderEntries(config, formatter, renderer.column_width,
                                           new_page, data.headers, start_y)
                        ELSE << >>)
          /\ state' = [current_y |-> IF data.headers # << >>
                                     THEN start_y - config.spacing.header_to_content
                                     ELSE start_y,
                       page_number |-> NextPageNumber(state.page_number)]
    /\ placed' = Append(placed, [cursor |-> state.current_y, broke |-> TRUE])
    /\ pc' = "place"
    /\ UNCHANGED <<config, formatter, data, row, result, call, invoked, calls>>

\* The mutant moves the cursor up the page after a row.
CursorAfterRowUpwards(cfg, y) == y + cfg.typography.line_height

\* Mm(state.current_y.0 - self.config.typography.line_height.0)
CursorAfterRow(cfg, y) == y - cfg.typography.line_height

\* The mutant moves on by two rows after it has rendered one.
PlaceRowSkippingNext ==
    /\ \/ pc = "place"
       \/ pc = "rows" /\ row < Len(data.rows) /\ ~NeedsPageBreak(config, state)
    /\ out' = out \o RowEntries(config, formatter, renderer.column_width, layer, row + 1,
                                data.rows[row + 1], data.headers, data.column_metadata,
                                state.current_y)
    /\ state' = [state EXCEPT !.current_y = CursorAfterRow(config, state.current_y)]
    /\ placed' = IF pc = "place"
                 THEN [placed EXCEPT ![Len(placed)] =
                          [cursor |-> placed[Len(placed)].cursor, broke |-> TRUE,
                           page |-> layer, y |-> state.current_y]]
                 ELSE Append(placed, [cursor |-> state.current_y, broke |-> FALSE,
                                      page |-> layer, y |-> state.current_y])
    /\ row' = Min(row + 2, Len(data.rows))
    /\ pc' = "rows"
    /\ UNCHANGED <<config, formatter, data, renderer, layer, result, call, invoked, calls>>

\* render_row and the cursor moving down by line_height, directly when the
\* test of the loop body is false
PlaceRow ==
    /\ \/ pc = "place"
       \/ pc = "rows" /\ row < Len(data.rows) /\ ~NeedsPageBreak(config, state)
    /\ out' = out \o RowEntries(config, formatter, renderer.column_width, layer, row + 1,
                                data.rows[row + 1], data.headers, data.column_metadata,
                                state.current_y)
    /\ state' = [state EXCEPT !.current_y = CursorAfterRow(config, state.current_y)]
    /\ placed' = IF pc = "place"
                 THEN [placed EXCEPT ![Len(placed)] =
                          [cursor |-> placed[Len(placed)].cursor, broke |-> TRUE,
                           page |-> layer, y |-> state.current_y]]
                 ELSE Append(placed, [cursor |-> state.current_y, broke |-> FALSE,
                                      page |-> layer, y |-> state.current_y])
    /\ row' = row + 1
    /\ pc' = "rows"
    /\ UNCHANGED <<config, formatter, data, renderer, layer, result, call, invoked, calls>>

\* The mutant opens a new page for the last footer when the last page is
\* full.
FinalFooterOnFreshPage ==
    /\ pc = "rows"
    /\ row = Len(data.rows)
    /\ IF NeedsPageBreak(config, state)
       THEN /\ renderer' = [renderer EXCEPT !.pages = renderer.pages + 1]
            /\ layer' = renderer.pages + 1
            /\ state' = [current_y |-> ContentStartY(config),
                         page_number |-> NextPageNumber(state.page_number)]
            /\ out' = out \o <<FooterEntry(config, layer, state.page_number),
                                FooterEntry(config, renderer.pages + 1,
                                            NextPageNumber(state.page_number))>>
       ELSE /\ out' = Append(out, FooterEntry(config, layer, state.page_number))
            /\ UNCHANGED <<renderer, layer, state>>
    /\ pc' = "save"
    /\ UNCHANGED <<config, formatter, data, row, placed, result, call, invoked, calls>>

\* After the loop: render_page_number on the last page
FinalFooter ==
    /\ pc = "rows"
    /\ row = Len(data.rows)
    /\ out' = Append(out, FooterEntry(config, layer, state.page_number))
    /\ pc' = "save"
    /\ UNCHANGED <<config, formatter, data, renderer, layer, state, row, placed,
                   result, call, invoked, calls>>

\* The instance ids of printpdf: PdfDocumentReference::save_to_bytes writes
\* /ID [document_id instance_id] into the trailer, both from
\* random_character_string_32(), and the creation date of the document
\* into its Info dictionary.
InstanceIds == 1..MaxInstanceIds

\* The bytes of a saved document: its pages, what was written on them, and
\* the instance id
SavedDocument(pages, content, instance_id) ==
    [kind |-> "Ok", pages |-> pages, content |-> content, instance_id |-> instance_id]

\* save_to_bytes succeeds: export returns the bytes of the document.
SaveToBytes ==
    /\ pc = "save"
    /\ \E instance_id \in InstanceIds :
           result' = SavedDocument(renderer.pages, out, instance_id)
    /\ pc' = "done"
    /\ UNCHANGED <<config, formatter, data, renderer, layer, state, row, out, placed,
                   call, invoked, calls>>

\* The mutant returns what was rendered along with the error.
SerializationFailsWithPartialBytes ==
    /\ pc = "save"
    /\ result' = [kind |-> "Err", error |-> "Serialization", pages |-> renderer.pages,
                  content |-> out]
    /\ pc' = "done"
    /\ UNCHANGED <<config, formatter, data, renderer, layer, state, row, out, placed,
                   call, invoked, calls>>

\* save_to_bytes fails: export returns the error.
SerializationFails ==
    /\ pc = "save"
    /\ result' = [kind |-> "Err", error |-> "Serialization"]
    /\ pc' = "done"
    /\ UNCHANGED <<config, formatter, data, renderer, layer, state, row, out, placed,
                   call, invoked, calls>>

Next ==
    \/ NewRenderer
    \/ FontLoadingFails
    \/ RenderTitle
    \/ RenderFirstHeaders
    \/ PageBreak
    \/ PlaceRow
    \/ FinalFooter
    \/ SaveToBytes
    \/ SerializationFails

Spec == Init /\ [][Next]_vars

\* A page of the width of A4 and 100 mm high: the columns are wide enough
\* for every cell, the pages hold a few rows
ShortLayout == LayoutWith(Mm(210), Mm(100), Mm(7))

FairInit ==
    /\ config \in {DefaultLayout, ShortLayout}
    /\ formatter = NewFormatter
    /\ \E headers \in ExportHeaders, n_rows \in 0..MaxRows, md \in ExportMetadata :
           data = TableOf(headers, n_rows, md)
    /\ pc = "new"
    /\ renderer = [column_width |-> 0, pages |-> 0]
    /\ layer = 0
    /\ state = [current_y |-> 0, page_number |-> 0]
    /\ row = 0
    /\ out = << >>
    /\ placed = << >>
    /\ result = [kind |-> "none"]
    /\ call = NoCall
    /\ invoked = << >>
    /\ calls = << >>

\* Tables of one column under the default layout, with as many rows as fill
\* one, two and three pages, one row less and one row more
CapacityRowCounts == {28, 29, 30, 60, 61, 62, 93, 94}

CapacityInit ==
    /\ config = DefaultLayout
    /\ formatter = NewFormatter
    /\ \E n_rows \in CapacityRowCounts : data = TableOf(<<HdrTotalSales>>, n_rows, NoMetadata)
    /\ pc = "new"
    /\ renderer = [column_width |-> 0, pages |-> 0]
    /\ layer = 0
    /\ state = [current_y |-> 0, page_number |-> 0]
    /\ row = 0
    /\ out = << >>
    /\ placed = << >>
    /\ result = [kind |-> "none"]
    /\ call = NoCall
    /\ invoked = << >>
    /\ calls = << >>

CapacitySpec == CapacityInit /\ [][Next]_vars

\* Small pages at the limit: 95 mm high, where the first row of page 1 is
\* exactly at the threshold; 80 mm, where a fresh page has room for one row
\* below its headers but page 1 has none below its title; and 75 mm, where
\* no page has room below its headers.  With them the small pages of Layouts.
EdgeLayouts ==
    {LayoutWith(Mm(60), Mm(95), Mm(7)), LayoutWith(Mm(60), Mm(80), Mm(7)),
     LayoutWith(Mm(60), Mm(75), Mm(7)), CompactLayout, TightLayout}

EdgeInit ==
    /\ config \in EdgeLayouts
    /\ formatter = NewFormatter
    /\ \E headers \in ExportHeaders, n_rows \in 0..MaxRows :
           data = TableOf(headers, n_rows, NoMetadata)
    /\ pc = "new"
    /\ renderer = [column_width |-> 0, pages |-> 0]
    /\ layer = 0
    /\ state = [current_y |-> 0, page_number |-> 0]
    /\ row = 0
    /\ out = << >>
    /\ placed = << >>
    /\ result = [kind |-> "none"]
    /\ call = NoCall
    /\ invoked = << >>
    /\ calls = << >>

EdgeSpec == EdgeInit /\ [][Next]_vars

\* export runs on its thread until it returns: a step that can be taken is
\* taken.
FairSpec == FairInit /\ [][Next]_vars /\ WF_vars(Next)

\* ------------------------------------------------------------------------
\* Functions called on their own: CallSpec draws a formatter, then the
\* arguments of one call, and applies sanitize (once, then again to its own
\* result), truncate, should_right_align or calculate_column_width.
\* ------------------------------------------------------------------------
\* Letter a, space, line feed, the Thai mark MAI HAN-AKAT (U+0E31)
TruncateAlphabet == {97, SPACE, LF, 3633}

\* One character of every arm of sanitize: tab, DEL, 'A', '~', Thai KO KAI,
\* the smart quotes, the dashes, the ellipsis, U+0080 and e-acute
SanitizeAlphabet ==
    {9, LF, 127, SPACE, 65, 126, 3585, 8220, 8221, 8216, 8217, 8211, 8212, 8230, 128, 233}

Formatters ==
    {WithTruncationMode(WithEllipsis(NewFormatter, e), m) :
        e \in {ThreeDots, EllipsisChar}, m \in {"Simple", "WordBoundary"}}

NoData ==
    [title |-> << >>, format |-> "Pdf", headers |-> << >>, rows |-> << >>,
     column_metadata |-> NoMetadata]

\* The export variables, at rest while functions are called on their own
ExportIdle ==
    /\ data = NoData
    /\ pc = "idle"
    /\ renderer = [column_width |-> 0, pages |-> 0]
    /\ layer = 0
    /\ state = [current_y |-> 0, page_number |-> 0]
    /\ row = 0
    /\ out = << >>
    /\ placed = << >>
    /\ result = [kind |-> "none"]

CallInit ==
    /\ config = DefaultLayout
    /\ formatter \in Formatters
    /\ call = NoCall
    /\ ExportIdle
    /\ invoked = << >>
    /\ calls = << >>

CallSanitize ==
    /\ call.op = "none"
    /\ \E text \in SeqsUpTo(SanitizeAlphabet, MaxSanitizeLen) :
           call' = [op |-> "sanitize", input |-> text, text |-> text,
                    result |-> Sanitize(text)]
    /\ UNCHANGED <<config, formatter, exportVars, invoked, calls>>

\* sanitize applied to the result of the previous sanitize
CallSanitizeAgain ==
    /\ call.op = "sanitize"
    /\ call' = [op |-> "sanitize_again", input |-> call.input, text |-> call.result,
                result |-> Sanitize(call.result)]
    /\ UNCHANGED <<config, formatter, exportVars, invoked, calls>>

CallTruncate ==
    /\ call.op = "none"
    /\ \E text \in SeqsUpTo(TruncateAlphabet, MaxTextLen), max_chars \in 0..MaxBudget :
           call' = [op |-> "truncate", text |-> text, max_chars |-> max_chars,
                    result |-> Truncate(formatter, text, max_chars)]
    /\ UNCHANGED <<config, formatter, exportVars, invoked, calls>>

MetadataChoices ==
    {NoMetadata}
    \cup {SomeMetadata(cols) :
            cols \in SeqsUpTo({ColumnMetadata(ty) : ty \in ColumnTypes}, MaxMetadata)}

\* should_right_align and calculate_column_width do not read the formatter:
\* they are called with the default one only.
CallShouldRightAlign ==
    /\ call.op = "none"
    /\ formatter = NewFormatter
    /\ \E headers \in SeqsUpTo(HeaderPool, MaxHeaders),
          column_metadata \in MetadataChoices,
          col_idx \in 0..MaxHeaders :
           call' = [op |-> "should_right_align", col_idx |-> col_idx,
                    headers |-> headers, column_metadata |-> column_metadata,
                    result |-> ShouldRightAlign(col_idx, headers, column_metadata)]
    /\ UNCHANGED <<config, formatter, exportVars, invoked, calls>>

CallCalculateColumnWidth ==
    /\ call.op = "none"
    /\ formatter = NewFormatter
    /\ \E layout \in Layouts, num_columns \in 0..MaxColumns :
           call' = [op |-> "calculate_column_width", config |-> layout,
                    num_columns |-> num_columns,
                    result |-> CalculateColumnWidth(layout, num_columns)]
    /\ UNCHANGED <<config, formatter, exportVars, invoked, calls>>

\* The limits given to with_limits: the defaults, both 0, a narrow range, a
\* wide range, and a minimum above the maximum
LimitChoices == {<<5, 50>>, <<0, 0>>, <<1, 3>>, <<3, 100>>, <<10, 5>>}

\* Widths from -5 mm to 300 mm and font sizes from -1 pt to 16 pt
WidthChoices == {0 - Mm(5), 0, Mm(1), Mm(10), Mm(28), Mm(85), Mm(170), Mm(300)}

FontSizeChoices == {0 - 1, 0, 1, 8, 10, 16}

\* max_chars_for_width on a formatter built by with_limits
CallMaxCharsForWidth ==
    /\ call.op = "none"
    /\ formatter = NewFormatter
    /\ \E limits \in LimitChoices, width \in WidthChoices, font_size \in FontSizeChoices :
           LET f == WithLimits(formatter, limits[1], limits[2])
           IN call' = [op |-> "max_chars_for_width", formatter |-> f, width |-> width,
                       font_size |-> font_size,
                       result |-> MaxCharsForWidth(f, width, font_size)]
    /\ UNCHANGED <<config, formatter, exportVars, invoked, calls>>

CallNext ==
    \/ CallSanitize
    \/ CallSanitizeAgain
    \/ CallTruncate
    \/ CallShouldRightAlign
    \/ CallCalculateColumnWidth
    \/ CallMaxCharsForWidth

CallSpec == CallInit /\ [][CallNext]_vars

\* ------------------------------------------------------------------------
\* Properties of the formatter (checked under CallSpec)
\* ------------------------------------------------------------------------
\* C1: for every text, every max_chars >= 1, either mode and any ellipsis,
\* truncate returns at most max_chars characters.
TruncateWithinBudget ==
    (call.op = "truncate" /\ call.max_chars >= 1)
        => Len(call.result) <= call.max_chars

\* C2: a text of at most max_chars characters (also exactly max_chars) is
\* returned unchanged by truncate, with no ellipsis appended.
TruncateNoOpBelowBudget ==
    (call.op = "truncate" /\ Len(call.text) <= call.max_chars)
        => call.result = call.text

\* A non-empty text exactly at its budget went through truncate, in the
\* word-boundary mode.
TruncateAtExactBudget ==
    /\ call.op = "truncate"
    /\ formatter.truncation_mode = "WordBoundary"
    /\ Len(call.text) = call.max_chars
    /\ call.max_chars = 3
    /\ call.result = call.text

\* C3: sanitize is idempotent: sanitize applied to a sanitized text returns
\* that text.
SanitizeIdempotent ==
    call.op = "sanitize_again" => call.result = call.text

\* sanitize was applied twice to a text the first application rewrote.
SanitizedTwice ==
    /\ call.op = "sanitize_again"
    /\ call.input = <<8220, 9>>
    /\ call.text = <<34, SPACE>>
    /\ call.result = call.text

\* ------------------------------------------------------------------------
\* Properties of the alignment resolver and of the column width (CallSpec)
\* ------------------------------------------------------------------------
\* C6: for a column index covered by the column metadata, should_right_align
\* is true iff the declared type is Number, Currency or Percentage, whatever
\* the header says.
AlignmentFromMetadata ==
    (/\ call.op = "should_right_align"
     /\ call.column_metadata.is_some
     /\ call.col_idx < Len(call.column_metadata.value))
        => (call.result
              <=> call.column_metadata.value[call.col_idx + 1].column_type
                      \in {"Number", "Currency", "Percentage"})

\* A Text column under the header "Total Sales" is left-aligned.
MetadataOverridesHeader ==
    /\ call.op = "should_right_align"
    /\ call.col_idx = 1
    /\ call.headers = <<HdrThaiName, HdrTotalSales>>
    /\ call.column_metadata
           = SomeMetadata(<<ColumnMetadata("Number"), ColumnMetadata("Text")>>)
    /\ call.result = FALSE

\* C7: for a column index the metadata does not cover (none, or too short),
\* the column is right-aligned iff it has a header whose lower-cased text
\* contains a numeric keyword; "Total Sales", "Price" and the Thai price
\* header are right-aligned, "Description" and the Thai name header are not;
\* an index with neither metadata nor header is left-aligned.
AlignmentFromHeader ==
    (/\ call.op = "should_right_align"
     /\ ~(call.column_metadata.is_some
           /\ call.col_idx < Len(call.column_metadata.value)))
        => /\ call.result
                <=> /\ call.col_idx < Len(call.headers)
                    /\ \E kw \in NumericKeywords, i \in 1..Len(call.headers[call.col_idx + 1]) :
                           /\ i + Len(kw) - 1 <= Len(call.headers[call.col_idx + 1])
                           /\ \A k \in 1..Len(kw) :
                                  LowerChar(call.headers[call.col_idx + 1][i + k - 1]) = kw[k]
           /\ call.result
                <=> /\ call.col_idx < Len(call.headers)
                    /\ call.headers[call.col_idx + 1]
                           \in {HdrTotalSales, HdrPrice, HdrThaiPrice}

\* The metadata is shorter than the header list, and the column beyond it
\* falls back to its header "Total Sales".
HeaderFallbackBeyondMetadata ==
    /\ call.op = "should_right_align"
    /\ call.col_idx = 1
    /\ call.headers = <<HdrDescription, HdrTotalSales>>
    /\ call.column_metadata = SomeMetadata(<<ColumnMetadata("Text")>>)
    /\ call.result = TRUE

\* C8: calculate_column_width(n) is content_width / n for every n >= 1,
\* whatever min_column_width is, so the n columns fit the content width up
\* to rounding; for n = 0 it is min_column_width.  With the defaults: 28 mm
\* for 0 columns, 34 mm for 5 and 17 mm for 10.
ColumnWidthFitsPage ==
    call.op = "calculate_column_width"
        => LET n == call.num_columns
               content_width == call.config.page_size.width - call.config.margins.left
                                    - call.config.margins.right
           IN /\ n >= 1 => /\ 2 * (call.result * n - content_width) <= n
                           /\ 2 * (content_width - call.result * n) <= n
              /\ n = 0 => call.result = call.config.min_column_width
              /\ call.config = DefaultLayout
                    => /\ n = 0 => call.result = Mm(28)
                       /\ n = 5 => call.result = Mm(34)
                       /\ n = 10 => call.result = Mm(17)

\* Ten columns on A4: 17 mm each, below the minimum column width of 28 mm.
ColumnWidthBelowMinimum ==
    /\ call.op = "calculate_column_width"
    /\ call.config = DefaultLayout
    /\ call.num_columns = 10
    /\ call.result = Mm(17)
    /\ call.result < call.config.min_column_width

\* ------------------------------------------------------------------------
\* Properties of PdfExporter::export (checked under Spec)
\* ------------------------------------------------------------------------
\* The character budget of the body cells of the export under way
CellBudget == MaxCharsForWidth(formatter, renderer.column_width, config.typography.body_size)

\* The footers written so far, in the order written
Footers == SelectSeq(out, LAMBDA e : e.kind = "footer")

\* The page breaks among the first k rows consumed
BreaksUpTo(k) == Cardinality({j \in 1..Min(k, Len(placed)) : placed[j].broke})

\* The threshold of the page break: bottom margin plus page-number area
BottomThreshold == config.margins.bottom + config.spacing.page_number_area

\* C4: the footers written are Page 1, Page 2, ... in page order, footer k
\* on page k; a footer is the last thing written to its page, and whatever
\* is written to a later page comes after the footer of the page before;
\* page_number is the number of pages opened, one more than the page breaks
\* made; and an export that succeeds has written one footer on each of its
\* pages, the last included.
FootersNumberPages ==
    /\ \A k \in 1..Len(Footers) :
           Footers[k].text = PageLabel(k) /\ Footers[k].page = k
    /\ \A i \in 1..Len(out), j \in 1..Len(out) :
           (i < j /\ out[i].kind = "footer") => out[j].page > out[i].page
    /\ \A j \in 1..Len(out) :
           out[j].page >= 2
               => \E i \in 1..(j - 1) :
                      out[i].kind = "footer" /\ out[i].page = out[j].page - 1
    /\ state.page_number = renderer.pages
    /\ renderer.pages >= 1 => state.page_number = 1 + BreaksUpTo(Len(placed))
    /\ result.kind = "Ok"
           => /\ Len(Footers) = result.pages
              /\ result.pages = renderer.pages
              /\ result.pages >= 1

\* An export of four pages succeeded, with the footers Page 1 .. Page 4.
FourPagesFourFooters ==
    /\ pc = "done"
    /\ result.kind = "Ok"
    /\ result.pages = 4
    /\ Len(Footers) = 4
    /\ Footers[4].text = PageLabel(4)
    /\ out[Len(out)] = Footers[4]

\* C5: a page break is made for a row exactly when the cursor is below the
\* threshold before the row is placed: the row is then placed on the new
\* page, and otherwise on the current page at the cursor, also when placing
\* it moves the cursor below the threshold; the pages opened are one more
\* than the breaks made for rows, so no page follows the last row.
PageBreakBeforeRow ==
    /\ \A k \in 1..Len(placed) :
           placed[k].broke <=> placed[k].cursor < BottomThreshold
    /\ \A i \in 1..Len(out) :
           out[i].kind = "cell"
               => /\ out[i].row <= Len(placed)
                  /\ out[i].page = 1 + BreaksUpTo(out[i].row)
                  /\ ~placed[out[i].row].broke => out[i].y = placed[out[i].row].cursor
                  /\ out[i].y >= BottomThreshold
    /\ \A k \in 1..row :
           \E i \in 1..Len(out) : out[i].kind = "cell" /\ out[i].row = k
    /\ result.kind = "Ok" => result.pages = 1 + BreaksUpTo(Len(placed))

\* Four rows on two pages: the first row ends page 1 and the break is made
\* for the second; the fourth row moves the cursor below the threshold and,
\* being the last, is followed by no page break.
BreakDeferredThenSkipped ==
    /\ pc = "done"
    /\ result.kind = "Ok"
    /\ Len(placed) = 4
    /\ ~placed[1].broke
    /\ placed[1].cursor - config.typography.line_height < BottomThreshold
    /\ placed[2].broke
    /\ ~placed[4].broke
    /\ state.current_y < BottomThreshold
    /\ renderer.pages = 2

\* C9 as stated: the text written for a cell is the sanitized cell,
\* truncated to the budget of its column.
CellSanitizedThenTruncated ==
    \A i \in 1..Len(out) :
        out[i].kind = "cell"
            => out[i].text
                   = Truncate(formatter, Sanitize(data.rows[out[i].row][out[i].col + 1]),
                              CellBudget)

\* C9, amended: the text written for a cell is the cell truncated to the
\* budget of its column and then sanitized, so truncation chooses its
\* boundary in the raw text and the ellipsis marker is sanitized as well:
\* the text written is a fixed point of sanitize.
CellTruncatedThenSanitized ==
    \A i \in 1..Len(out) :
        out[i].kind = "cell"
            => /\ out[i].text
                      = Sanitize(Truncate(formatter, data.rows[out[i].row][out[i].col + 1],
                                          CellBudget))
               /\ Sanitize(out[i].text) = out[i].text

\* The cell "x" line feed "y Hello World" was written as "x...": its first
\* raw line, where sanitizing first would have given "x y...".
CellCutAtRawLineFeed ==
    \E i \in 1..Len(out) :
        /\ out[i].kind = "cell"
        /\ formatter = NewFormatter
        /\ CellBudget = 9
        /\ data.rows[out[i].row][out[i].col + 1] = CellPool[3]
        /\ out[i].text = <<120, 46, 46, 46>>
        /\ Truncate(formatter, Sanitize(CellPool[3]), CellBudget)
               = <<120, 32, 121, 46, 46, 46>>

\* C10: on every page every header is written once, as sanitize(header),
\* with as many characters as the header has, whatever the budget of the
\* column's cells.
HeadersNeverTruncated ==
    /\ \A i \in 1..Len(out) :
           out[i].kind = "header"
               => /\ out[i].text = Sanitize(data.headers[out[i].col + 1])
                  /\ Len(out[i].text) = Len(data.headers[out[i].col + 1])
    /\ pc \notin {"new", "title", "headers"}
           => \A p \in 1..renderer.pages, c \in 1..Len(data.headers) :
                  Cardinality({i \in 1..Len(out) :
                                  /\ out[i].kind = "header"
                                  /\ out[i].page = p
                                  /\ out[i].col = c - 1}) = 1

\* On the second page the header "From" en dash "To" is written as
\* "From-To", seven characters in a column whose cells have a budget of 5.
LongHeaderOnSecondPage ==
    \E i \in 1..Len(out) :
        /\ out[i].kind = "header"
        /\ out[i].page = 2
        /\ data.headers[out[i].col + 1] = HdrFromTo
        /\ out[i].text = <<70, 114, 111, 109, 45, 84, 111>>
        /\ CellBudget = 5

\* The entries of one kind written to one page, as positions of `out`
EntriesOn(kind, page) ==
    {i \in 1..Len(out) : out[i].kind = kind /\ out[i].page = page}

\* C11: the title is written once, first of all and on page 1; with headers,
\* every page has the header row once and one separator line after it,
\* before any row of the page: on page 1 a title region below the content
\* start, on later pages at the content start, the line header_line_offset
\* below; without headers no header and no line is written.
TitleOnceHeadersOnEveryPage ==
    LET top == config.page_size.height - config.margins.top
                   - config.spacing.content_top_offset
        HeaderY(p) == IF p = 1 THEN top - config.spacing.title_bottom ELSE top
        titles == {i \in 1..Len(out) : out[i].kind = "title"}
    IN /\ titles \subseteq {1}
       /\ \A i \in titles : out[i].page = 1 /\ out[i].y = top
       /\ (pc \in {"headers", "rows", "place", "save"} \/ result.kind = "Ok")
              => titles = {1}
       /\ (pc \in {"rows", "place", "save"} \/ result.kind = "Ok")
              => \A p \in 1..renderer.pages :
                     /\ Cardinality(EntriesOn("line", p))
                            = (IF data.headers = << >> THEN 0 ELSE 1)
                     /\ \A c \in 1..Len(data.headers) :
                            \E i \in EntriesOn("header", p) :
                                /\ out[i].col = c - 1
                                /\ \A j \in EntriesOn("header", p) :
                                       out[j].col = c - 1 => j = i
       /\ \A i \in 1..Len(out) :
              /\ out[i].kind = "header"
                     => /\ data.headers # << >>
                        /\ out[i].y = HeaderY(out[i].page)
                        /\ \A j \in EntriesOn("line", out[i].page) : i < j
                        /\ \A j \in EntriesOn("cell", out[i].page) : i < j
              /\ out[i].kind = "line"
                     => /\ data.headers # << >>
                        /\ out[i].y = HeaderY(out[i].page) - config.spacing.header_line_offset
                        /\ \A j \in EntriesOn("cell", out[i].page) : i < j
              /\ out[i].kind = "cell" /\ data.headers # << >>
                     => EntriesOn("line", out[i].page) # {}

\* An export of three pages and two columns succeeded: the title is the
\* first entry, and page 3 has its header row at the content start, followed
\* by its line and then by a row.
HeadersRepeatedOnThirdPage ==
    /\ pc = "done"
    /\ result.kind = "Ok"
    /\ renderer.pages = 3
    /\ Len(data.headers) = 2
    /\ out[1].kind = "title"
    /\ Cardinality(EntriesOn("header", 3)) = 2
    /\ Cardinality(EntriesOn("line", 3)) = 1
    /\ EntriesOn("cell", 3) # {}
    /\ \A i \in EntriesOn("header", 3) : out[i].y = ContentStartY(config)

\* C12: in a step of an export that leaves page_number as it is the cursor
\* does not move up: the title moves it down by title_bottom, the first
\* header row by header_to_content, a row by line_height; a step that moves
\* the cursor up is a page break, which adds a page and one to page_number
\* and leaves the cursor at the content start (below the header row when
\* there are headers).
CursorDescendsWithinPage ==
    [][pc # "new"
          => /\ state'.page_number = state.page_number
                    => state'.current_y <= state.current_y
             /\ (pc = "title" /\ pc' # "title")
                    => state'.current_y = state.current_y - config.spacing.title_bottom
             /\ (pc = "headers" /\ pc' # "headers")
                    => state'.current_y = state.current_y - config.spacing.header_to_content
             /\ row' # row
                    => /\ state'.current_y = state.current_y - config.typography.line_height
                       /\ state'.page_number = state.page_number
             /\ state'.page_number # state.page_number
                    => /\ state'.page_number = state.page_number + 1
                       /\ renderer'.pages = renderer.pages + 1
                       /\ row' = row
                       /\ state'.current_y
                              = config.page_size.height - config.margins.top
                                    - config.spacing.content_top_offset
                                    - (IF data.headers = << >> THEN 0
                                       ELSE config.spacing.header_to_content)
             /\ state'.current_y > state.current_y
                    => state'.page_number = state.page_number + 1]_vars

\* A page break has just set the cursor back: page 2 is open, the cursor is
\* above where the loop saw it, and the row is still to be placed.
CursorResetAtPageBreak ==
    /\ pc = "place"
    /\ state.page_number = 2
    /\ renderer.pages = 2
    /\ placed[Len(placed)].broke
    /\ placed[Len(placed)].cursor < state.current_y
    /\ state.current_y = ContentStartY(config) - config.spacing.header_to_content

\* C13: export ends with exactly one of Ok(bytes) and Err(error); an error
\* carries no bytes; the font-loading error is returned with nothing
\* rendered, the serialization error after the last footer; and until export
\* has returned there is no result.
FailedExportHasNoBytes ==
    /\ result.kind \in {"none", "Ok", "Err"}
    /\ pc = "done" <=> result.kind \in {"Ok", "Err"}
    /\ result.kind = "Err"
           => /\ DOMAIN result = {"kind", "error"}
              /\ result.error \in {"FontLoading", "Serialization"}
              /\ result.error = "FontLoading" => out = << >>
              /\ result.error = "Serialization"
                     => out # << >> /\ out[Len(out)].kind = "footer"
    /\ result.kind = "Ok"
           => /\ "error" \notin DOMAIN result
              /\ result.content = out
              /\ out[Len(out)].kind = "footer"

\* Serialization failed after two pages were rendered: the export returned
\* the error and nothing of what it had rendered.
SerializationFailedAfterRendering ==
    /\ pc = "done"
    /\ result = [kind |-> "Err", error |-> "Serialization"]
    /\ renderer.pages = 2
    /\ Len(Footers) = 2

\* ------------------------------------------------------------------------
\* Properties of sanitize and of the truncation modes (CallSpec)
\* ------------------------------------------------------------------------
\* The control characters (general category Cc): U+0000..U+001F and
\* U+007F..U+009F
IsControl(c) == c \in 0..31 \/ c \in 127..159

\* C17: sanitize keeps the number of characters and maps each character on
\* its own: ASCII printable and Thai characters to themselves, the smart
\* double quotes to ", the smart single quotes to ', the en and em dash to
\* -, the ellipsis to '.', every other control character to a space, and
\* every other character to itself.
SanitizeMapsEachCharacter ==
    call.op = "sanitize"
        => /\ Len(call.result) = Len(call.input)
           /\ \A i \in 1..Len(call.input) :
                  LET c == call.input[i]
                  IN call.result[i]
                         = (IF c \in 32..126 \/ c \in 3584..3711 THEN c
                            ELSE IF c \in {8220, 8221} THEN 34
                            ELSE IF c \in {8216, 8217} THEN 39
                            ELSE IF c \in {8211, 8212} THEN 45
                            ELSE IF c = 8230 THEN 46
                            ELSE IF IsControl(c) THEN SPACE
                            ELSE c)

\* C18: in Simple mode a text longer than max_chars, with max_chars above
\* the length of the ellipsis in characters, becomes its first
\* max_chars - ellipsis_length characters followed by the ellipsis, exactly
\* max_chars characters; "Hello World Test" at 10 becomes "Hello W...".
SimpleCutsAtBudget ==
    /\ (/\ call.op = "truncate"
        /\ formatter.truncation_mode = "Simple"
        /\ Len(call.text) > call.max_chars
        /\ call.max_chars > Len(formatter.ellipsis))
           => /\ call.result
                     = SubSeq(call.text, 1, call.max_chars - Len(formatter.ellipsis))
                           \o formatter.ellipsis
              /\ Len(call.result) = call.max_chars
    /\ formatter = WithTruncationMode(NewFormatter, "Simple")
           => Truncate(formatter, CellPool[4], 10)
                  = <<72, 101, 108, 108, 111, 32, 87, 46, 46, 46>>

\* Simple mode with the one-character ellipsis U+2026 (three bytes): five
\* characters at a budget of 3 become the first two and the ellipsis.
SimpleCutWithWideEllipsis ==
    /\ call.op = "truncate"
    /\ formatter.truncation_mode = "Simple"
    /\ formatter.ellipsis = EllipsisChar
    /\ Len(call.text) = 5
    /\ call.max_chars = 3
    /\ call.result = <<call.text[1], call.text[2], 8230>>

\* C19: in WordBoundary mode a text longer than max_chars, with max_chars
\* above the length of the ellipsis, becomes a prefix of the text of at most
\* max_chars - ellipsis_length characters, without trailing spaces, followed
\* by the ellipsis.
WordBoundaryPrefixThenEllipsis ==
    (/\ call.op = "truncate"
     /\ formatter.truncation_mode = "WordBoundary"
     /\ Len(call.text) > call.max_chars
     /\ call.max_chars > Len(formatter.ellipsis))
        => \E k \in 0..(call.max_chars - Len(formatter.ellipsis)) :
               /\ call.result = SubSeq(call.text, 1, k) \o formatter.ellipsis
               /\ k > 0 => call.text[k] # SPACE

\* C20: a text longer than max_chars, with max_chars at most the length of
\* the ellipsis, becomes its first max_chars characters and no ellipsis, in
\* both modes; the empty text when max_chars is 0.
EdgeBudgetPlainPrefix ==
    (/\ call.op = "truncate"
     /\ Len(call.text) > call.max_chars
     /\ call.max_chars <= Len(formatter.ellipsis))
        => /\ call.result = SubSeq(call.text, 1, call.max_chars)
           /\ Len(call.result) = call.max_chars
           /\ call.max_chars = 0 => call.result = << >>

\* WordBoundary mode with "..." at a budget of exactly 3: five letters
\* become the first three, without ellipsis.
PrefixAtEllipsisLength ==
    /\ call.op = "truncate"
    /\ formatter = NewFormatter
    /\ call.text = <<97, 97, 97, 97, 97>>
    /\ call.max_chars = 3
    /\ call.result = <<97, 97, 97>>

MaxCharsWithinLimits ==
    call.op = "max_chars_for_width" =>
        LET f == call.formatter
            fits(n) == n * 1200000 * call.font_size <= call.width * 56693
        IN /\ call.result <= f.max_chars_limit
           /\ f = NewFormatter => (call.result >= 5 /\ call.result <= 50)
           /\ f.min_chars_limit <= f.max_chars_limit
                  => call.result >= f.min_chars_limit
           /\ (call.width > 0 /\ call.font_size > 0)
                  => \/ /\ fits(call.result)
                        /\ ~fits(call.result + 1)
                     \/ /\ ~fits(f.min_chars_limit)
                        /\ call.result = Min(f.min_chars_limit, f.max_chars_limit)
                     \/ /\ fits(f.max_chars_limit + 1)
                        /\ call.result = f.max_chars_limit

\* A formatter with_limits(10, 5) asked for a column of 28 mm at 10 pt (13
\* characters fit): the result is the maximum, 5.
MaxCharsWithMinAboveMax ==
    /\ call.op = "max_chars_for_width"
    /\ call.formatter.min_chars_limit = 10
    /\ call.formatter.max_chars_limit = 5
    /\ call.width = Mm(28)
    /\ call.font_size = 10
    /\ call.result = 5

\* The cells written so far
CellEntries == SelectSeq(out, LAMBDA e : e.kind = "cell")

\* The left boundary of a column, and its right boundary
ColumnLeft(col) == config.margins.left + renderer.column_width * col

ColumnRight(col) ==
    Min(ColumnLeft(col) + renderer.column_width, config.page_size.width - config.margins.right)

\* The estimated width of a text at the body size: 0.5 * body_size points
\* per character, 0.3528 mm per point
EstimatedWidth(text) == (Len(text) * config.typography.body_size * 1764) \div 100

\* C23: a cell of a left-aligned column starts at the left boundary of its
\* column; a cell of a right-aligned column starts at the right boundary
\* minus the estimated width of its text and the cell padding, or at the
\* left boundary when that is further right; so no cell starts left of its
\* column, and no column ends right of page width minus right margin.
CellStartsInsideColumn ==
    \A k \in 1..Len(CellEntries) :
        LET e == CellEntries[k]
            right_edge == ColumnRight(e.col) - EstimatedWidth(e.text)
                              - config.spacing.cell_padding
        IN /\ ShouldRightAlign(e.col, data.headers, data.column_metadata)
                  => e.x = Max(ColumnLeft(e.col), right_edge)
           /\ ~ShouldRightAlign(e.col, data.headers, data.column_metadata)
                  => e.x = ColumnLeft(e.col)
           /\ e.x >= ColumnLeft(e.col)
           /\ ColumnRight(e.col) <= config.page_size.width - config.margins.right

\* Two right-aligned cells have been written: one short enough to end at
\* the padding, right of the left boundary, and one too wide for its
\* column, which starts at the left boundary.
RightAlignedCellClamped ==
    \E k, n \in 1..Len(CellEntries) :
        LET e == CellEntries[k]
            wide == CellEntries[n]
        IN /\ ShouldRightAlign(e.col, data.headers, data.column_metadata)
           /\ e.x > ColumnLeft(e.col)
           /\ e.x + EstimatedWidth(e.text) + config.spacing.cell_padding = ColumnRight(e.col)
           /\ ShouldRightAlign(wide.col, data.headers, data.column_metadata)
           /\ wide.x = ColumnLeft(wide.col)
           /\ ColumnRight(wide.col) - EstimatedWidth(wide.text)
                  - config.spacing.cell_padding < ColumnLeft(wide.col)

\* The positions among the cells written of the cells of row k
CellsOfRow(k) == {i \in 1..Len(CellEntries) : CellEntries[i].row = k}

\* Every row up to the current one has its cells written once, on one
\* page, in the order of the input, the pages never decreasing and growing
\* by at most one from a row to the next.
RowsPlacedInOrder ==
    LET cells == CellEntries
    IN /\ row <= Len(data.rows)
       /\ \A k \in 1..Len(data.rows) :
              /\ Cardinality(CellsOfRow(k)) = IF k <= row THEN Len(data.rows[k]) ELSE 0
              /\ \A i, j \in CellsOfRow(k) :
                     /\ cells[i].page = cells[j].page
                     /\ i # j => cells[i].col # cells[j].col
       /\ \A i, j \in 1..Len(cells) :
              i < j => /\ cells[i].row <= cells[j].row
                       /\ cells[i].page <= cells[j].page
                       /\ cells[j].row <= cells[i].row + 1
                              => cells[j].page <= cells[i].page + 1
       /\ \A i \in 1..Len(cells) :
              /\ cells[i].row = 1 => cells[i].page <= 2
              /\ cells[i].text = PrepareCellText(config, formatter, renderer.column_width,
                                                 data.rows[cells[i].row][cells[i].col + 1])

\* Once the loop is left every row has been placed and the last entry is
\* the one footer of the last page.
FinalizingAfterAllRows ==
    (pc \in {"save", "done"} /\ renderer.pages >= 1)
        => /\ row = Len(data.rows)
           /\ out[Len(out)].kind = "footer"
           /\ out[Len(out)].page = renderer.pages
           /\ Cardinality(EntriesOn("footer", renderer.pages)) = 1

\* C24: export places every row once, in the order of the input and on one
\* page, the pages never decreasing and growing by at most one from a row
\* to the next; once the loop is left every row has been placed and the
\* last thing written is the footer of the last page; nothing is written
\* after that; and every export returns.
EveryRowPlacedOnceThenDone ==
    /\ [](RowsPlacedInOrder /\ FinalizingAfterAllRows)
    /\ [][(pc \in {"save", "done"}) => (out' = out)]_vars
    /\ <>(pc = "done")

\* An export of eight rows has returned its document: the rows are on
\* three pages or more.
EightRowsOverThreePages ==
    /\ pc = "done"
    /\ result.kind = "Ok"
    /\ Len(data.rows) = 8
    /\ row = 8
    /\ renderer.pages >= 3
    /\ Cardinality({CellEntries[i].row : i \in 1..Len(CellEntries)}) = 8

\* ------------------------------------------------------------------------
\* ExportUseCase::execute with DefaultExportValidator.  The exporters are
\* the three ExportService objects the use case holds; execute sees of each
\* only whether export returned Ok or Err.
\* ------------------------------------------------------------------------
\* data.rows.len() > 10000 and cell.len() > 1000 (bytes) of validate
MaxRowsAllowed == 10000

MaxCellLen == 1000

DomainOk == [kind |-> "Ok"]

\* The mutant does not compare the number of cells with the headers.
RowErrorIgnoringCount(cells, header_count) ==
    LET long == {j \in 1..Len(cells) : ByteLen(cells[j]) > MaxCellLen}
    IN IF long # {}
       THEN [kind |-> "Err", error |-> "CellTooLong",
             len |-> ByteLen(cells[CHOOSE j \in long : \A k \in long : j <= k])]
       ELSE DomainOk

\* The body of the loop of validate over the rows: the column count, then
\* the cells in order
RowError(cells, header_count) ==
    LET long == {j \in 1..Len(cells) : ByteLen(cells[j]) > MaxCellLen}
    IN IF Len(cells) # header_count
       THEN [kind |-> "Err", error |-> "ColumnCountMismatch"]
       ELSE IF long # {}
       THEN [kind |-> "Err", error |-> "CellTooLong",
             len |-> ByteLen(cells[CHOOSE j \in long : \A k \in long : j <= k])]
       ELSE DomainOk

\* DefaultExportValidator::validate: the first error in the order of the
\* checks
Validate(d) ==
    LET header_count == Len(d.headers)
        bad_rows == {i \in 1..Len(d.rows) : RowError(d.rows[i], header_count) # DomainOk}
        long_headers == {j \in 1..header_count : ByteLen(d.headers[j]) > MaxCellLen}
    IN IF d.headers = << >> THEN [kind |-> "Err", error |-> "EmptyData"]
       ELSE IF d.rows = << >> THEN [kind |-> "Err", error |-> "EmptyData"]
       ELSE IF Len(d.rows) > MaxRowsAllowed
       THEN [kind |-> "Err", error |-> "TooManyRows", len |-> Len(d.rows)]
       ELSE IF bad_rows # {}
       THEN RowError(d.rows[CHOOSE i \in bad_rows : \A k \in bad_rows : i <= k],
                     header_count)
       ELSE IF long_headers # {}
       THEN [kind |-> "Err", error |-> "CellTooLong",
             len |-> ByteLen(d.headers[CHOOSE j \in long_headers :
                                           \A k \in long_headers : j <= k])]
       ELSE DomainOk

\* The match of execute on data.format
ServiceFor(format) ==
    IF format = "Excel" THEN "excel_service"
    ELSE IF format = "Csv" THEN "csv_service"
    ELSE "pdf_service"

ExportFormats == {"Excel", "Csv", "Pdf"}

\* Texts at the limit of validate: 250 characters of 4 bytes (1000 bytes),
\* 251 of them (1004 bytes), and 334 Thai letters (1002 bytes)
TextAtLimit == [i \in 1..(MaxCellLen \div 4) |-> 128512]

TextOverLimit == [i \in 1..(MaxCellLen \div 4 + 1) |-> 128512]

ThaiOverLimit == [i \in 1..(MaxCellLen \div 3 + 1) |-> 3585]

RequestShapes ==
    {"plain", "extra_cell", "cell_at_limit", "cell_over_limit", "thai_cell_over_limit",
     "header_over_limit"}

\* The ExportData of a request: n_headers headers, n_rows rows of n_headers
\* cells, and one departure from that by shape
RequestOf(format, n_headers, n_rows, shape) ==
    LET headers == [j \in 1..n_headers |->
                       IF shape = "header_over_limit" /\ j = n_headers THEN TextOverLimit
                       ELSE IF j % 2 = 1 THEN HdrTotalSales ELSE HdrDescription]
        CellAt(i, j) ==
            IF i = 1 /\ j = 1 /\ shape = "cell_at_limit" THEN TextAtLimit
            ELSE IF i = n_rows /\ j = n_headers /\ shape = "cell_over_limit"
                 THEN TextOverLimit
            ELSE IF i = n_rows /\ j = 1 /\ shape = "thai_cell_over_limit"
                 THEN ThaiOverLimit
            ELSE CellPool[2]
    IN [title |-> TitleReport, format |-> format, headers |-> headers,
        rows |-> [i \in 1..n_rows |->
                     [j \in 1..(IF shape = "extra_cell" /\ i = n_rows
                                THEN n_headers + 1 ELSE n_headers) |-> CellAt(i, j)]],
        column_metadata |-> NoMetadata]

\* Small tables of every shape, and tables of two columns with 10000 and
\* with 10001 rows
Requests ==
    {RequestOf(format, n_headers, n_rows, shape) :
        format \in ExportFormats, n_headers \in 0..MaxHeaders, n_rows \in 0..2,
        shape \in RequestShapes}
    \cup
    {RequestOf(format, 2, n_rows, shape) :
        format \in ExportFormats,
        n_rows \in {MaxRowsAllowed, MaxRowsAllowed + 1},
        shape \in {"plain", "cell_at_limit"}}

UseCaseInit ==
    /\ config = DefaultLayout
    /\ formatter = NewFormatter
    /\ data \in Requests
    /\ pc = "execute"
    /\ renderer = [column_width |-> 0, pages |-> 0]
    /\ layer = 0
    /\ state = [current_y |-> 0, page_number |-> 0]
    /\ row = 0
    /\ out = << >>
    /\ placed = << >>
    /\ result = [kind |-> "none"]
    /\ call = NoCall
    /\ invoked = << >>
    /\ calls = << >>

\* execute when validate returns an error: the `?` returns it.
ExecuteRejects ==
    /\ pc = "execute"
    /\ Validate(data) # DomainOk
    /\ result' = Validate(data)
    /\ pc' = "done"
    /\ UNCHANGED <<config, formatter, data, renderer, layer, state, row, out, placed,
                   call, invoked, calls>>

\* What export of an ExportService returns: bytes, or an error with its
\* message (e.to_string())
ExportOutcomes ==
    {[kind |-> "Ok"]}
    \cup {[kind |-> "Err", message |-> msg] : msg \in {"font loading", "serialization"}}

\* The Result of execute for the outcome of the service called:
\* map_err(|e| DomainError::InvalidFormat(e.to_string()))
ExecuteResult(service, outcome) ==
    IF outcome.kind = "Ok"
    THEN [kind |-> "Ok", service |-> service]
    ELSE [kind |-> "Err", error |-> "InvalidFormat", message |-> outcome.message]

\* The mutant falls back to the CSV exporter when the exporter of the
\* format fails.
ExecuteExportsWithFallback ==
    /\ pc = "execute"
    /\ Validate(data) = DomainOk
    /\ \E outcome \in ExportOutcomes :
           IF outcome.kind = "Err" /\ ServiceFor(data.format) # "csv_service"
           THEN /\ invoked' = invoked \o <<[service |-> ServiceFor(data.format), data |-> data],
                                           [service |-> "csv_service", data |-> data]>>
                /\ result' = [kind |-> "Ok", service |-> "csv_service"]
           ELSE /\ invoked' = Append(invoked, [service |-> ServiceFor(data.format),
                                               data |-> data])
                /\ result' = ExecuteResult(ServiceFor(data.format), outcome)
    /\ pc' = "done"
    /\ UNCHANGED <<config, formatter, data, renderer, layer, state, row, out, placed,
                   call, calls>>

\* execute when validate returns Ok: the service of the format is called,
\* and its bytes are returned, or its error as InvalidFormat.
ExecuteExports ==
    /\ pc = "execute"
    /\ Validate(data) = DomainOk
    /\ invoked' = Append(invoked, [service |-> ServiceFor(data.format), data |-> data])
    /\ \E outcome \in ExportOutcomes :
           result' = ExecuteResult(ServiceFor(data.format), outcome)
    /\ pc' = "done"
    /\ UNCHANGED <<config, formatter, data, renderer, layer, state, row, out, placed,
                   call, calls>>

UseCaseNext ==
    \/ ExecuteRejects
    \/ ExecuteExports

UseCaseSpec == UseCaseInit /\ [][UseCaseNext]_vars

\* C16: whenever execute calls an exporter, the data has at least one
\* header, between 1 and 10000 rows, as many cells in every row as headers,
\* and no cell or header longer than 1000 (in bytes, hence in characters);
\* when validate returns an error, execute returns it and calls no
\* exporter, and data that breaks one of these conditions gets such an
\* error.
ExporterCalledOnValidData ==
    LET Short(text) == ByteLen(text) <= 1000 /\ Len(text) <= 1000
        WellFormed(d) ==
            /\ Len(d.headers) >= 1
            /\ Len(d.rows) >= 1
            /\ Len(d.rows) <= 10000
            /\ \A i \in 1..Len(d.rows) :
                   /\ Len(d.rows[i]) = Len(d.headers)
                   /\ \A j \in 1..Len(d.rows[i]) : Short(d.rows[i][j])
            /\ \A j \in 1..Len(d.headers) : Short(d.headers[j])
        validation_errors ==
            {"EmptyData", "TooManyRows", "ColumnCountMismatch", "CellTooLong"}
    IN /\ \A k \in 1..Len(invoked) :
              /\ WellFormed(invoked[k].data)
              /\ invoked[k].data = data
       /\ (result.kind = "Err" /\ result.error \in validation_errors) => invoked = << >>
       /\ (pc = "done" /\ ~WellFormed(data))
              => /\ invoked = << >>
                 /\ result.kind = "Err"
                 /\ result.error \in validation_errors

\* execute called the PDF exporter on 10000 rows of two cells, one of them
\* of exactly 1000 bytes.
ExporterCalledAtLimits ==
    /\ pc = "done"
    /\ result.kind = "Ok"
    /\ Len(invoked) = 1
    /\ invoked[1].service = "pdf_service"
    /\ Len(data.rows) = 10000
    /\ Len(data.headers) = 2
    /\ data.rows[1][1] = TextAtLimit

\* ------------------------------------------------------------------------
\* Several calls of export in flight on one PdfExporter.  The exporter
\* holds config and text_formatter; export(&self, data) borrows all three
\* and keeps its renderer, layer and PageState in locals.  calls[c] holds
\* the data and the locals of call c; ConcSpec interleaves the steps of
\* the calls in every order.
\* ------------------------------------------------------------------------
\* A call of export(d) about to start
CallOf(d) ==
    [data |-> d, pc |-> "new", renderer |-> [column_width |-> 0, pages |-> 0],
     layer |-> 0, state |-> [current_y |-> 0, page_number |-> 0], row |-> 0,
     out |-> << >>, result |-> [kind |-> "none"]]

\* The tables exported concurrently: one column, MaxCallRows rows or one
\* row less
CallTables ==
    {TableOf(<<HdrTotalSales>>, n_rows, NoMetadata) :
        n_rows \in (MaxCallRows - 1)..MaxCallRows}

\* render_row for the next row of one call, and its cursor moving down
RowStep(cfg, f, run) ==
    [run EXCEPT
        !.out = run.out \o RowEntries(cfg, f, run.renderer.column_width, run.layer,
                                      run.row + 1, run.data.rows[run.row + 1],
                                      run.data.headers, run.data.column_metadata,
                                      run.state.current_y),
        !.state.current_y = CursorAfterRow(cfg, run.state.current_y),
        !.row = run.row + 1,
        !.pc = "rows"]

\* The loop body of export for one call: the page break when the test
\* holds, else the row
LoopStep(cfg, f, run) ==
    IF NeedsPageBreak(cfg, run.state)
    THEN LET new_page == run.renderer.pages + 1
             start_y == ContentStartY(cfg)
         IN [run EXCEPT
                !.renderer.pages = new_page,
                !.layer = new_page,
                !.out = Append(run.out, FooterEntry(cfg, run.layer, run.state.page_number))
                        \o (IF run.data.headers # << >>
                            THEN HeaderEntries(cfg, f, run.renderer.column_width, new_page,
                                               run.data.headers, start_y)
                            ELSE << >>),
                !.state = [current_y |-> IF run.data.headers # << >>
                                         THEN start_y - cfg.spacing.header_to_content
                                         ELSE start_y,
                           page_number |-> NextPageNumber(run.state.page_number)],
                !.pc = "place"]
    ELSE RowStep(cfg, f, run)

\* The outcomes of the next step of one call of export, by its position
ExportSteps(cfg, f, run) ==
    CASE run.pc = "new" ->
             {[run EXCEPT
                  !.renderer = [column_width |->
                                    CalculateColumnWidth(cfg, Len(run.data.headers)),
                                pages |-> 1],
                  !.layer = 1,
                  !.state = [current_y |-> ContentStartY(cfg), page_number |-> 1],
                  !.pc = "title"],
              [run EXCEPT !.result = [kind |-> "Err", error |-> "FontLoading"],
                          !.pc = "done"]}
      [] run.pc = "title" ->
             {[run EXCEPT
                  !.out = Append(run.out, TitleEntry(cfg, f, run.layer, run.data.title,
                                                     run.state.current_y)),
                  !.state.current_y = run.state.current_y - cfg.spacing.title_bottom,
                  !.pc = IF run.data.headers # << >> THEN "headers" ELSE "rows"]}
      [] run.pc = "headers" ->
             {[run EXCEPT
                  !.out = run.out \o HeaderEntries(cfg, f, run.renderer.column_width,
                                                   run.layer, run.data.headers,
                                                   run.state.current_y),
                  !.state.current_y = run.state.current_y - cfg.spacing.header_to_content,
                  !.pc = "rows"]}
      [] run.pc = "rows" /\ run.row < Len(run.data.rows) -> {LoopStep(cfg, f, run)}
      [] run.pc = "rows" /\ run.row = Len(run.data.rows) ->
             {[run EXCEPT
                  !.out = Append(run.out,
                                 FooterEntry(cfg, run.layer, run.state.page_number)),
                  !.pc = "save"]}
      [] run.pc = "place" -> {RowStep(cfg, f, run)}
      [] run.pc = "save" ->
             {[run EXCEPT !.result = SavedDocument(run.renderer.pages, run.out, instance_id),
                          !.pc = "done"] : instance_id \in InstanceIds}
             \cup {[run EXCEPT !.result = [kind |-> "Err", error |-> "Serialization"],
                               !.pc = "done"]}
      [] OTHER -> {}

ConcInit ==
    /\ config = CompactLayout
    /\ formatter = NewFormatter
    /\ call = NoCall
    /\ ExportIdle
    /\ invoked = << >>
    /\ calls \in [1..NumCalls -> {CallOf(d) : d \in CallTables}]

\* The mutant keeps the PageState in the exporter: a step of one call
\* moves the cursor and the page number of the calls that are rendering.
ExportStepSharedPageState(c) ==
    /\ calls[c].pc # "done"
    /\ \E next \in ExportSteps(config, formatter, calls[c]) :
           calls' = [k \in 1..NumCalls |->
                        IF k = c THEN next
                        ELSE IF calls[k].pc \in {"new", "done"} THEN calls[k]
                        ELSE [calls[k] EXCEPT !.state = next.state]]
    /\ UNCHANGED <<config, formatter, exportVars, call, invoked>>

\* The thread of call c takes the next step of export.
ExportStep(c) ==
    /\ calls[c].pc # "done"
    /\ \E next \in ExportSteps(config, formatter, calls[c]) :
           calls' = [calls EXCEPT ![c] = next]
    /\ UNCHANGED <<config, formatter, exportVars, call, invoked>>

ConcNext == \E c \in 1..NumCalls : ExportStep(c)

ConcSpec == ConcInit /\ [][ConcNext]_vars

\* export(d) run on its own up to save_to_bytes
RECURSIVE ExportAlone(_, _, _)
ExportAlone(cfg, f, run) ==
    IF run.pc = "save" THEN run
    ELSE CHOOSE last \in
             {ExportAlone(cfg, f, next) :
                 next \in {n \in ExportSteps(cfg, f, run) : n.pc # "done"}} : TRUE

\* The results export(d) can return when it runs on its own
ResultsAlone(cfg, f, d) ==
    {[kind |-> "Err", error |-> "FontLoading"]}
    \cup {last.result : last \in ExportSteps(cfg, f, ExportAlone(cfg, f, CallOf(d)))}

\* C14: two calls of export on identical data, with the same config and
\* formatter, that both return a document return identical bytes: the same
\* pages, the same entries at the same positions, and nothing else that
\* differs.
SameDataSameBytes ==
    \A a \in DOMAIN calls, b \in DOMAIN calls :
        (/\ calls[a].data = calls[b].data
         /\ calls[a].pc = "done" /\ calls[a].result.kind = "Ok"
         /\ calls[b].pc = "done" /\ calls[b].result.kind = "Ok")
            => calls[a].result = calls[b].result

\* C15: calls of export interleaved in any order each start with their own
\* PageState (cursor at content_start_y, page number 1); a step of one call
\* changes nothing of another call, nor config, formatter or the data of
\* any call; and the result of every call is one that export returns for
\* its data when it runs alone.
CallsAreIsolated ==
    /\ [](\A c \in DOMAIN calls :
              /\ calls[c].pc = "title"
                     => calls[c].state = [current_y |-> ContentStartY(config),
                                          page_number |-> 1]
              /\ calls[c].pc = "done"
                     => calls[c].result \in ResultsAlone(config, formatter, calls[c].data))
    /\ [][/\ config' = config
          /\ formatter' = formatter
          /\ DOMAIN calls' = DOMAIN calls
          /\ \A c \in DOMAIN calls : calls'[c].data = calls[c].data
          /\ \E c \in DOMAIN calls :
                 \A k \in DOMAIN calls \ {c} : calls'[k] = calls[k]]_vars

\* Two calls on the same table are in flight: the first has broken the
\* page and is on page 2, the second has placed its first row on page 1.
CallsOnDifferentPages ==
    /\ calls # << >>
    /\ calls[1].data = calls[2].data
    /\ calls[1].pc = "place"
    /\ calls[1].state.page_number = 2
    /\ calls[2].pc = "rows"
    /\ calls[2].row = 1
    /\ calls[2].state.page_number = 1
    /\ calls[2].state.current_y < calls[1].state.current_y

\* C25: execute calls export at most once; after a successful validation
\* exactly once, on the exporter of data.format and on no other; when that
\* call fails, execute returns InvalidFormat with the exporter's message
\* and no bytes; it returns bytes only from the exporter it called.
OneExporterCalledOnce ==
    /\ Len(invoked) <= 1
    /\ pc = "done"
           => /\ Len(invoked) = 1 <=> Validate(data) = DomainOk
              /\ \A k \in 1..Len(invoked) :
                     /\ data.format = "Excel" => invoked[k].service = "excel_service"
                     /\ data.format = "Csv" => invoked[k].service = "csv_service"
                     /\ data.format = "Pdf" => invoked[k].service = "pdf_service"
              /\ result.kind = "Ok"
                     => /\ Len(invoked) = 1
                        /\ result.service = invoked[1].service
              /\ (result.kind = "Err" /\ Len(invoked) = 1)
                     => /\ result.error = "InvalidFormat"
                        /\ result.message \in {"font loading", "serialization"}
                        /\ DOMAIN result = {"kind", "error", "message"}

\* The Excel exporter was called once and failed: execute returned
\* InvalidFormat with its message.
ExcelFailureReturned ==
    /\ pc = "done"
    /\ data.format = "Excel"
    /\ Len(invoked) = 1
    /\ invoked[1].service = "excel_service"
    /\ result = [kind |-> "Err", error |-> "InvalidFormat", message |-> "serialization"]

\* C26: under the default layout with headers, rows 1 to 29 are on page 1
\* at 242 mm down to 46 mm, and the rows after them 32 to a page at 257 mm
\* down to 40 mm; a document of R rows has 1 page when R <= 29 and
\* 1 + ceil((R - 29) / 32) pages otherwise.
DefaultPageCapacity ==
    (config = DefaultLayout /\ data.headers # << >>)
        => /\ \A i \in 1..Len(CellEntries) :
                  LET e == CellEntries[i]
                  IN IF e.row <= 29
                     THEN /\ e.page = 1
                          /\ e.y = Mm(242) - Mm(7) * (e.row - 1)
                          /\ e.y >= Mm(46)
                     ELSE /\ e.page = 2 + ((e.row - 30) \div 32)
                          /\ e.y = Mm(257) - Mm(7) * ((e.row - 30) % 32)
                          /\ e.y >= Mm(40)
           /\ result.kind = "Ok"
                  => result.pages = IF Len(data.rows) <= 29 THEN 1
                                    ELSE 1 + ((Len(data.rows) - 29 + 31) \div 32)

\* 62 rows under the default layout: row 61 is the 32nd row of page 2, at
\* exactly 40 mm, and row 62 alone is on page 3.
RowAtThresholdStillPlaced ==
    /\ config = DefaultLayout
    /\ pc = "done"
    /\ result.kind = "Ok"
    /\ Len(data.rows) = 62
    /\ result.pages = 3
    /\ \E i, j \in 1..Len(CellEntries) :
           /\ CellEntries[i].row = 61
           /\ CellEntries[i].page = 2
           /\ CellEntries[i].y = Mm(40)
           /\ CellEntries[j].row = 62
           /\ CellEntries[j].page = 3

\* C27: a page is opened only for a row about to be placed on it: outside
\* the loop body every page after the first has a row, there are never more
\* pages than rows plus one, a document without rows has one page with the
\* footer "Page 1", and rows that fill the last page leave no empty page
\* behind.
NoEmptyTrailingPage ==
    LET pages_with_rows == {CellEntries[i].page : i \in 1..Len(CellEntries)}
    IN /\ renderer.pages <= Len(data.rows) + 1
       /\ (pc \in {"rows", "save", "done"} /\ renderer.pages >= 1)
              => /\ renderer.pages <= row + 1
                 /\ \A p \in 2..renderer.pages : p \in pages_with_rows
       /\ pc = "place" => /\ renderer.pages = layer
                          /\ \A p \in 2..(renderer.pages - 1) : p \in pages_with_rows
       /\ (result.kind = "Ok" /\ data.rows = << >>)
              => /\ result.pages = 1
                 /\ Len(Footers) = 1
                 /\ Footers[1].page = 1
                 /\ Footers[1].text = PageLabel(1)
       /\ (result.kind = "Ok" /\ NeedsPageBreak(config, state) /\ data.rows # << >>)
              => CellEntries[Len(CellEntries)].page = result.pages

\* An export has returned a document of two pages or more whose last page
\* is full: the cursor is below the threshold and the last row is on the
\* last page.
LastPageFullNoExtraPage ==
    /\ pc = "done"
    /\ result.kind = "Ok"
    /\ result.pages >= 2
    /\ NeedsPageBreak(config, state)
    /\ CellEntries[Len(CellEntries)].page = result.pages
    /\ CellEntries[Len(CellEntries)].row = Len(data.rows)

\* C28: in a layout where a fresh page has room for a row below its
\* headers (content_start_y - header_to_content >= effective_bottom), page 1
\* also below its title (minus title_bottom), and line_height > 0, every
\* row is written at a cursor at or above effective_bottom, whatever the
\* number of rows and page breaks before it.
RowsAboveFooterArea ==
    LET fresh == ContentStartY(config) - config.spacing.header_to_content
        roomy == /\ fresh >= EffectiveBottom(config)
                 /\ fresh - config.spacing.title_bottom >= EffectiveBottom(config)
                 /\ config.typography.line_height > 0
    IN roomy => \A i \in 1..Len(CellEntries) : CellEntries[i].y >= EffectiveBottom(config)

\* On the page of 95 mm the first row of page 1 is written exactly at the
\* threshold, and after two page breaks or more the rows are still at or
\* above it.
RowAtThresholdOnFirstPage ==
    /\ config = LayoutWith(Mm(60), Mm(95), Mm(7))
    /\ pc = "done"
    /\ result.kind = "Ok"
    /\ result.pages >= 3
    /\ CellEntries[1].page = 1
    /\ CellEntries[1].y = EffectiveBottom(config)
    /\ \A i \in 1..Len(CellEntries) : CellEntries[i].y >= EffectiveBottom(config)

\* ------------------------------------------------------------------------
\* The router of main and auth_middleware.  `call` holds the request (path,
\* Authorization header, body) and the time it arrives; `invoked` records
\* the handlers and exporters that ran; `result` is the response.
\* ------------------------------------------------------------------------
\* JwtHandler::new(secret, 3600) of main, and the leeway of
\* Validation::default() of jsonwebtoken, in seconds
TokenLifetime == 3600

Leeway == 60

\* "Bearer " and other starts of an Authorization header: lower case,
\* another scheme, no space, two spaces, nothing
BearerPrefix == <<66, 101, 97, 114, 101, 114, 32>>

HeaderPrefixes ==
    {BearerPrefix,
     <<98, 101, 97, 114, 101, 114, 32>>,
     <<66, 97, 115, 105, 99, 32>>,
     <<66, 101, 97, 114, 101, 114>>,
     <<66, 101, 97, 114, 101, 114, 32, 32>>,
     << >>}

\* JwtHandler::generate_token at time now: HS256, signed with the secret of
\* the server, exp = now + expiration.  `text` stands for the encoded token.
GenerateToken(now) ==
    [text |-> <<101, 118>>, alg |-> "HS256", key |-> "server", exp |-> now + TokenLifetime]

\* The tokens a client can send: the one issued at time 0, one signed with
\* another key, one with alg none, all with the same claims
Tokens ==
    {GenerateToken(0),
     [text |-> <<101, 102>>, alg |-> "HS256", key |-> "other", exp |-> TokenLifetime],
     [text |-> <<101, 110>>, alg |-> "none", key |-> "none", exp |-> TokenLifetime]}

\* The text after "Bearer ": a token, no token, or something that is none
TokenTexts == {t.text : t \in Tokens} \cup {<< >>, <<120>>}

\* The mutant does not look at the expiry of the token.
ValidateTokenIgnoringExpiry(text, now) ==
    \E t \in Tokens : t.text = text /\ t.alg = "HS256" /\ t.key = "server"

\* JwtHandler::validate_token: decode with the secret of the server and
\* Validation::default(): HS256, a valid signature, exp not before
\* now - leeway
ValidateToken(text, now) ==
    \E t \in Tokens :
        /\ t.text = text
        /\ t.alg = "HS256"
        /\ t.key = "server"
        /\ t.exp >= now - Leeway

\* headers().get(AUTHORIZATION).and_then(to_str).and_then(strip_prefix("Bearer "))
BearerToken(authorization) ==
    IF ~authorization.present \/ ~authorization.visible_ascii
    THEN [is_some |-> FALSE, value |-> << >>]
    ELSE IF /\ Len(authorization.value) >= Len(BearerPrefix)
            /\ SubSeq(authorization.value, 1, Len(BearerPrefix)) = BearerPrefix
    THEN [is_some |-> TRUE,
          value |-> SubSeq(authorization.value, Len(BearerPrefix) + 1,
                           Len(authorization.value))]
    ELSE [is_some |-> FALSE, value |-> << >>]

\* The Authorization headers of the requests: none, one that is not visible
\* ASCII, and every prefix with every token text
Authorizations ==
    {[present |-> FALSE, visible_ascii |-> TRUE, value |-> << >>]}
    \cup {[present |-> TRUE, visible_ascii |-> ascii, value |-> prefix \o text] :
             ascii \in BOOLEAN, prefix \in HeaderPrefixes, text \in TokenTexts}

\* The bodies of the export requests: a format to_domain rejects, and small
\* tables
ExportBodies ==
    {[to_domain |-> "Err"]}
    \cup {[to_domain |-> "Ok", data |-> RequestOf(format, n_headers, 1, "plain")] :
             format \in ExportFormats, n_headers \in 0..1}

\* The times at which a request arrives: when the token is issued, at its
\* expiry, at the end of the leeway, and one second later
ArrivalTimes == {0, TokenLifetime, TokenLifetime + Leeway, TokenLifetime + Leeway + 1}

GateInit ==
    /\ config = DefaultLayout
    /\ formatter = NewFormatter
    /\ \E path \in {"/health", "/api/auth/token", "/api/export"},
          authorization \in Authorizations, now \in ArrivalTimes :
           call = [op |-> "request", path |-> path, authorization |-> authorization,
                   now |-> now]
    /\ data = NoData
    /\ pc = "route"
    /\ renderer = [column_width |-> 0, pages |-> 0]
    /\ layer = 0
    /\ state = [current_y |-> 0, page_number |-> 0]
    /\ row = 0
    /\ out = << >>
    /\ placed = << >>
    /\ result = [kind |-> "none"]
    /\ invoked = << >>
    /\ calls = << >>

\* GET /health
HealthCheck ==
    /\ pc = "route"
    /\ call.path = "/health"
    /\ invoked' = Append(invoked, [service |-> "health_check"])
    /\ result' = [kind |-> "Response", status |-> 200]
    /\ pc' = "done"
    /\ UNCHANGED <<config, formatter, data, renderer, layer, state, row, out, placed,
                   call, calls>>

\* GET /api/auth/token
GetToken ==
    /\ pc = "route"
    /\ call.path = "/api/auth/token"
    /\ invoked' = Append(invoked, [service |-> "get_token"])
    /\ result' = [kind |-> "Response", status |-> 200, token |-> GenerateToken(call.now),
                  expires_in |-> TokenLifetime]
    /\ pc' = "done"
    /\ UNCHANGED <<config, formatter, data, renderer, layer, state, row, out, placed,
                   call, calls>>

\* auth_middleware, up to its return or next.run(request)
AuthMiddleware ==
    /\ pc = "route"
    /\ call.path = "/api/export"
    /\ LET token == BearerToken(call.authorization)
       IN IF ~token.is_some
          THEN /\ result' = [kind |-> "Response", status |-> 401,
                             message |-> "Missing authorization token"]
               /\ pc' = "done"
          ELSE IF ~ValidateToken(token.value, call.now)
          THEN /\ result' = [kind |-> "Response", status |-> 401,
                             message |-> "Invalid or expired token"]
               /\ pc' = "done"
          ELSE /\ result' = result
               /\ pc' = "handler"
    /\ UNCHANGED <<config, formatter, data, renderer, layer, state, row, out, placed,
                   call, invoked, calls>>

\* handle_export: to_domain, then execute, and the response for its Result
HandleExport ==
    /\ pc = "handler"
    /\ \E body \in ExportBodies, outcome \in ExportOutcomes :
           IF body.to_domain = "Err"
           THEN /\ invoked' = Append(invoked, [service |-> "handle_export"])
                /\ result' = [kind |-> "Response", status |-> 400,
                              message |-> "Invalid format"]
                /\ data' = data
           ELSE IF Validate(body.data) # DomainOk
           THEN /\ invoked' = Append(invoked, [service |-> "handle_export"])
                /\ result' = [kind |-> "Response", status |-> 400,
                              message |-> "Export failed"]
                /\ data' = body.data
           ELSE /\ invoked' = invoked \o <<[service |-> "handle_export"],
                                           [service |-> ServiceFor(body.data.format),
                                            data |-> body.data]>>
                /\ result' = IF ExecuteResult(ServiceFor(body.data.format), outcome).kind = "Ok"
                             THEN [kind |-> "Response", status |-> 200]
                             ELSE [kind |-> "Response", status |-> 400,
                                   message |-> "Export failed"]
                /\ data' = body.data
    /\ pc' = "done"
    /\ UNCHANGED <<config, formatter, renderer, layer, state, row, out, placed, call, calls>>

GateNext ==
    \/ HealthCheck
    \/ GetToken
    \/ AuthMiddleware
    \/ HandleExport

GateSpec == GateInit /\ [][GateNext]_vars

\* C29: handle_export, validation and the exporters run only for a request
\* to /api/export whose Authorization header is "Bearer " followed by a
\* token of the server that has not expired; without such a header the
\* response is 401 and nothing has run; /health and /api/auth/token answer
\* 200 whatever the header.
ExportBehindBearerToken ==
    LET authorized ==
            /\ call.authorization.present
            /\ call.authorization.visible_ascii
            /\ \E t \in Tokens :
                   /\ call.authorization.value = BearerPrefix \o t.text
                   /\ t.key = "server"
                   /\ t.alg = "HS256"
                   /\ t.exp + 60 >= call.now
        gated == {k \in 1..Len(invoked) :
                     invoked[k].service \notin {"health_check", "get_token"}}
    IN /\ gated # {} => (call.path = "/api/export" /\ authorized)
       /\ pc = "handler" => (call.path = "/api/export" /\ authorized)
       /\ (pc = "done" /\ call.path = "/api/export" /\ ~authorized)
              => /\ result.status = 401
                 /\ invoked = << >>
                 /\ data = NoData
       /\ (pc = "done" /\ call.path \in {"/health", "/api/auth/token"})
              => /\ result.status = 200
                 /\ Len(invoked) = 1
                 /\ invoked[1].service \in {"health_check", "get_token"}

\* The token issued at time 0 arrives one second after the end of the
\* leeway, in a well-formed header: the response is 401 and no handler ran.
ExpiredTokenRejected ==
    /\ pc = "done"
    /\ call.path = "/api/export"
    /\ call.authorization.present
    /\ call.authorization.visible_ascii
    /\ call.authorization.value = BearerPrefix \o GenerateToken(0).text
    /\ call.now = TokenLifetime + Leeway + 1
    /\ result.status = 401
    /\ result.message = "Invalid or expired token"
    /\ invoked = << >>

====
